---- MODULE Spec2Model ----
(***************************************************************************)
(* A model of the mydi dependency-injection container:                     *)
(*   InjectionBinder (src/src/injection_binder.rs), Injector               *)
(*   (src/src/injector.rs), Lazy<T> (src/src/lib.rs), the tuple reader     *)
(*   (src/src/tuples.rs) and the derived ComponentMeta::inject             *)
(*   (src/macros/src/derive_component.rs).                                 *)
(*                                                                         *)
(* A TypeId is a number.  Base types are 1..NBase; Lazy<T> of type T is    *)
(* T + NBase, so Lazy<Lazy<T>> is T + 2*NBase.  The type name of a TypeId  *)
(* (std::any::type_name) is a function of the type and is modelled by the  *)
(* TypeId itself.  HashMap is a function, HashSet a set, Vec a sequence,   *)
(* Option a sequence of length at most one.                                *)
(***************************************************************************)
EXTENDS Integers, Sequences, FiniteSets, TLC

\* ------------------------------------------------------------------ bounds
NBase == 3       \* base (non-Lazy) types of the program
NLazy == 1       \* base types 1..NLazy also occur wrapped: Lazy<T>, Lazy<Lazy<T>>
MaxDeps == 2     \* longest dependency list of a registration
MaxRegs == 3     \* registration calls made on one binder
MaxVal == 2      \* distinct values handed to instance()
MaxOther == 2    \* registration calls made on a binder that is merged into another
NThreads == 3    \* threads that hold a clone of one Injector
MaxShared == 2   \* keys those threads get and insert
MaxBuilt == 2    \* registration calls before a build() whose registry threads share
MaxTuple == 2    \* members of a tuple type handed to get_tuple

\* the TypeId of (), of Box<K> and of Arc<K>
Unit == 0
Box(k) == k + 3 * NBase
Arc(k) == k + 6 * NBase

Base == 1..NBase
Lazy(k) == k + NBase
IsLazyType(k) == k > NBase
LazyTarget(k) == k - NBase
LazyKeys == {Lazy(k) : k \in 1..NLazy} \cup {Lazy(Lazy(k)) : k \in 1..NLazy}
Keys == Base \cup LazyKeys
\* the keys a non-lazy component may declare as a dependency
DepKeys == Base \cup {Lazy(k) : k \in 1..NLazy}

\* ------------------------------------------------------- maps and options
EmptyMap == [k \in {} |-> 0]
MapInsert(m, k, v) == [x \in (DOMAIN m) \cup {k} |-> IF x = k THEN v ELSE m[x]]
MapExtend(m, o) == [x \in (DOMAIN m) \cup (DOMAIN o) |-> IF x \in DOMAIN o THEN o[x] ELSE m[x]]
MapRemove(m, k) == [x \in (DOMAIN m) \ {k} |-> m[x]]
None == << >>
Some(x) == << x >>
Range(s) == {s[i] : i \in DOMAIN s}

\* std::any::type_name::<X>() and the derive's debug_line() (file:line)
TypeName(k) == k
DebugLine(k) == k

\* dependency lists the registrations are drawn from: increasing, no repeats
DepLists == {s \in UNION {[1..n -> DepKeys] : n \in 0..MaxDeps} :
                \A i \in DOMAIN s : \A j \in DOMAIN s : i < j => s[i] < s[j]}

\* ----------------------------------------------------------------- values
\* Box<dyn Any> values: what instance() was given, what a builder returned,
\* or the once_cell thunk of a Lazy<T>.
InstVal(x) == [tag |-> "instance", x |-> x]
BuiltVal(kind, k, args) == [tag |-> "built", kind |-> kind, key |-> k, args |-> args]
ThunkVal(target) == [tag |-> "thunk", target |-> target]

\* anyhow::Result
Ok == [kind |-> "Ok"]
OkVal(v) == [kind |-> "Ok", value |-> v]
MissingValue(k) == [kind |-> "MissingValue", type |-> TypeName(k)]

\* --------------------------------------------------------------- Injector
\* (mutant) a key that is not stored yields a default value
Get_OrDefault(values, k) ==
    IF k \in DOMAIN values THEN OkVal(values[k]) ELSE OkVal(InstVal(1))

\* Injector::get: a clone of the stored value, or the missing-value error
Get(values, k) ==
    IF k \in DOMAIN values THEN OkVal(values[k]) ELSE MissingValue(k)

\* Injector::insert
Insert(values, k, item) == MapInsert(values, k, item)

\* (mutant) every member is read, and the last failure is the one reported
RECURSIVE ReadFromInjector_LastError(_, _, _, _)
ReadFromInjector_LastError(values, deps, i, acc) ==
    IF i > Len(deps) THEN OkVal(acc)
    ELSE LET r == Get(values, deps[i])
             rest == ReadFromInjector_LastError(values, deps, i + 1,
                        IF r.kind = "Ok" THEN Append(acc, r.value) ELSE acc)
         IN IF rest.kind # "Ok" THEN rest
            ELSE IF r.kind # "Ok" THEN r
            ELSE rest

\* TupleInjectTypes::read_from_injector: get each member in order, `?` on each
RECURSIVE ReadFromInjector(_, _, _, _)
ReadFromInjector(values, deps, i, acc) ==
    IF i > Len(deps) THEN OkVal(acc)
    ELSE LET r == Get(values, deps[i])
         IN IF r.kind # "Ok" THEN r
            ELSE ReadFromInjector(values, deps, i + 1, Append(acc, r.value))

\* ------------------------------------------------------------ the builders
\* A builder closure is described by what it was made from:
\*   "component": the derived ComponentMeta::inject (one get per field, in order)
\*   "fn":        inject_fn / inject_fn_ok (reads the tuple, applies f)
\*   "lazy":      Lazy<T>::inject (captures the injector, reads nothing)
\*   "fn_err":    inject_fn_ok with an f that returns Err (reads the tuple, f fails)
\*   "fn_force":  inject_fn with an f that dereferences the Lazy<T> members of
\*                its tuple (reads the tuple, forces each lazy member)
\*   "f", "Box::new", "Arc::new": auto, auto_box, auto_arc (inject_fn of these)
Builder(kind, deps) == [kind |-> kind, deps |-> deps]

\* the Err(..) that the f handed to inject_fn_ok returns
UserError(type_id) == [kind |-> "UserError", type |-> TypeName(type_id)]

\* the unwinding of a panic: unreachable!() in the thunk of a Lazy<T>
Panic == [kind |-> "Panic"]

\* the thunks among the members of a tuple whose injector.get::<T>() fails
FailingThunks(t, values) ==
    {i \in DOMAIN t : t[i].tag = "thunk" /\ Get(values, t[i].target).kind # "Ok"}

CallBuilder(f, type_id, values) ==
    IF f.kind = "lazy" THEN OkVal(ThunkVal(f.deps[1]))
    ELSE LET t == ReadFromInjector(values, f.deps, 1, << >>)
         IN IF t.kind # "Ok" THEN t
            ELSE IF f.kind = "fn_err" THEN UserError(type_id)
            ELSE IF f.kind = "fn_force" /\ FailingThunks(t.value, values) # {} THEN Panic
            ELSE OkVal(BuiltVal(f.kind, type_id, t.value))

\* ----------------------------------------------------------------- Binder
InjectionBinder_new ==
    [static_values |-> EmptyMap,
     builders |-> << >>,
     requirements_graph |-> << >>,
     type_names |-> EmptyMap,
     debug_lines |-> EmptyMap,
     lazy_types |-> {}]

Req(type_id, deps) == [type_id |-> type_id, deps |-> deps]

\* (mutant) a static value already supplied is kept (no overwrite)
instance_KeepsFirst(b, k, x) ==
    [b EXCEPT !.static_values = IF k \in DOMAIN @ THEN @ ELSE MapInsert(@, k, InstVal(x)),
              !.type_names = MapInsert(@, k, TypeName(k)),
              !.requirements_graph = Append(@, Req(k, << >>))]

instance(b, k, x) ==
    [b EXCEPT !.static_values = MapInsert(@, k, InstVal(x)),
              !.type_names = MapInsert(@, k, TypeName(k)),
              !.requirements_graph = Append(@, Req(k, << >>))]

inject_fn_raw(b, k, f, deps, debug_line, lazy) ==
    [b EXCEPT !.builders = Append(@, [type_id |-> k, f |-> f]),
              !.requirements_graph = Append(@, Req(k, deps)),
              !.type_names = MapInsert(
                    MapExtend(@, [d \in Range(deps) |-> TypeName(d)]), k, TypeName(k)),
              !.lazy_types = IF lazy THEN @ \cup {k} ELSE @,
              !.debug_lines = IF debug_line # None
                              THEN MapInsert(@, k, debug_line[1]) ELSE @]

\* inject::<X>() for a struct X deriving Component with fields of types deps
inject(b, k, deps) ==
    inject_fn_raw(b, k, Builder("component", deps), deps, Some(DebugLine(k)), FALSE)

\* inject::<Lazy<T>>(): the key is Lazy<T>, the one dependency is T
inject_lazy(b, target) ==
    inject_fn_raw(b, Lazy(target), Builder("lazy", << target >>), << target >>, None, TRUE)

\* inject_fn(f) / inject_fn_ok(f) for f : In -> R
inject_fn(b, k, deps) ==
    inject_fn_raw(b, k, Builder("fn", deps), deps, None, FALSE)

\* inject_fn with an f that dereferences the lazy members of its tuple
inject_fn_force(b, k, deps) ==
    inject_fn_raw(b, k, Builder("fn_force", deps), deps, None, FALSE)

\* inject_fn_ok(f) for an f : In -> anyhow::Result<R> that returns Err(..)
inject_fn_ok(b, k, deps) ==
    inject_fn_raw(b, k, Builder("fn_err", deps), deps, None, FALSE)

\* auto(f) on an InjectionBinder<LastType>, f : LastType -> Din:
\* inject_fn(move |(x,)| -> Din { f(x) })
auto(b, last_type, din) ==
    inject_fn_raw(b, din, Builder("f", << last_type >>), << last_type >>, None, FALSE)

\* auto_box(): inject_fn(|(x,)| -> Box<LastType> { Box::new(x) })
auto_box(b, last_type) ==
    inject_fn_raw(b, Box(last_type), Builder("Box::new", << last_type >>),
                  << last_type >>, None, FALSE)

\* auto_arc(): inject_fn(|(x,)| -> Arc<LastType> { Arc::new(x) })
auto_arc(b, last_type) ==
    inject_fn_raw(b, Arc(last_type), Builder("Arc::new", << last_type >>),
                  << last_type >>, None, FALSE)

\* (mutant) the static values of self win over those of other
merge_SelfWins(b, other) ==
    [static_values |-> MapExtend(other.static_values, b.static_values),
     builders |-> b.builders \o other.builders,
     requirements_graph |-> b.requirements_graph \o other.requirements_graph,
     type_names |-> MapExtend(b.type_names, other.type_names),
     debug_lines |-> MapExtend(b.debug_lines, other.debug_lines),
     lazy_types |-> b.lazy_types \cup other.lazy_types]

merge(b, other) ==
    [static_values |-> MapExtend(b.static_values, other.static_values),
     builders |-> b.builders \o other.builders,
     requirements_graph |-> b.requirements_graph \o other.requirements_graph,
     type_names |-> MapExtend(b.type_names, other.type_names),
     debug_lines |-> MapExtend(b.debug_lines, other.debug_lines),
     lazy_types |-> b.lazy_types \cup other.lazy_types]

\* names of the keys of a sequence / set that have a recorded type name
\* (.flat_map(|x| self.type_names.get(x)))
RECURSIVE NamesOfSeq(_, _)
NamesOfSeq(b, s) ==
    IF s = << >> THEN << >>
    ELSE (IF Head(s) \in DOMAIN b.type_names THEN << b.type_names[Head(s)] >> ELSE << >>)
         \o NamesOfSeq(b, Tail(s))

NamesOfSet(b, S) == {b.type_names[k] : k \in S \cap DOMAIN b.type_names}

\* ------------------------------------------------------------- validation
\* errors of the four passes; the names of a HashSet/HashMap iteration are a set
DuplicationsFound(names) == [kind |-> "Duplicates", names |-> names]
NestedLazy(names) == [kind |-> "NestedLazy", names |-> names]
MissingInjectionValues(entries) == [kind |-> "MissingDependencies", per_component |-> entries]
CycleFound(names) == [kind |-> "DependencyCycle", names |-> names]
CantResolve(names) == [kind |-> "CantResolve", names |-> names]

\* (mutant) registrations without dependencies take part in the scan
RECURSIVE DuplicatesScan_CountsEmpty(_, _, _, _)
DuplicatesScan_CountsEmpty(g, i, available, duplicates) ==
    IF i > Len(g) THEN duplicates
    ELSE IF g[i].type_id \in available
         THEN DuplicatesScan_CountsEmpty(g, i + 1, available, duplicates \cup {g[i].type_id})
         ELSE DuplicatesScan_CountsEmpty(g, i + 1, available \cup {g[i].type_id}, duplicates)

\* (mutant) the scan forgets to add the keys it has seen to `available`
RECURSIVE DuplicatesScan_NoInsert(_, _, _, _)
DuplicatesScan_NoInsert(g, i, available, duplicates) ==
    IF i > Len(g) THEN duplicates
    ELSE IF g[i].deps = << >> THEN DuplicatesScan_NoInsert(g, i + 1, available, duplicates)
    ELSE IF g[i].type_id \in available
         THEN DuplicatesScan_NoInsert(g, i + 1, available, duplicates \cup {g[i].type_id})
         ELSE DuplicatesScan_NoInsert(g, i + 1, available, duplicates)

RECURSIVE DuplicatesScan(_, _, _, _)
DuplicatesScan(g, i, available, duplicates) ==
    IF i > Len(g) THEN duplicates
    ELSE IF g[i].deps = << >> THEN DuplicatesScan(g, i + 1, available, duplicates)
    ELSE IF g[i].type_id \in available
         THEN DuplicatesScan(g, i + 1, available, duplicates \cup {g[i].type_id})
         ELSE DuplicatesScan(g, i + 1, available \cup {g[i].type_id}, duplicates)

verify_duplicates(b, additional_types) ==
    LET duplicates == DuplicatesScan(b.requirements_graph, 1, additional_types, {})
    IN IF duplicates = {} THEN Ok
       ELSE DuplicationsFound(NamesOfSet(b, duplicates))

\* (mutant) the first filter is inverted: only non-lazy registrations are looked at
RECURSIVE InvalidLazyTypes_Inverted(_, _)
InvalidLazyTypes_Inverted(b, g) ==
    IF g = << >> THEN << >>
    ELSE (IF /\ Head(g).type_id \notin b.lazy_types
             /\ \E x \in Range(Head(g).deps) : x \in b.lazy_types
          THEN << Head(g).type_id >> ELSE << >>)
         \o InvalidLazyTypes_Inverted(b, Tail(g))

RECURSIVE InvalidLazyTypes(_, _)
InvalidLazyTypes(b, g) ==
    IF g = << >> THEN << >>
    ELSE (IF /\ Head(g).type_id \in b.lazy_types
             /\ \E x \in Range(Head(g).deps) : x \in b.lazy_types
          THEN << Head(g).type_id >> ELSE << >>)
         \o InvalidLazyTypes(b, Tail(g))

verify_nested_lazy_deps(b) ==
    LET invalid_lazy_types == InvalidLazyTypes(b, b.requirements_graph)
    IN IF invalid_lazy_types = << >> THEN Ok
       ELSE NestedLazy(NamesOfSeq(b, invalid_lazy_types))

\* (mutant) only the first missing dependency of a component is listed
RECURSIVE NotIn_First(_, _)
NotIn_First(s, available) ==
    IF s = << >> THEN << >>
    ELSE IF Head(s) \in available THEN NotIn_First(Tail(s), available)
    ELSE << Head(s) >>

RECURSIVE NotIn(_, _)
NotIn(s, available) ==
    IF s = << >> THEN << >>
    ELSE (IF Head(s) \in available THEN << >> ELSE << Head(s) >>) \o NotIn(Tail(s), available)

\* (mutant) only the first offending component is reported
RECURSIVE MissingLocalTypes_FirstOnly(_, _, _)
MissingLocalTypes_FirstOnly(b, g, available_types) ==
    IF g = << >> THEN << >>
    ELSE LET missing_requirements == NamesOfSeq(b, NotIn(Head(g).deps, available_types))
             type_id == Head(g).type_id
         IN IF missing_requirements = << >> \/ type_id \notin DOMAIN b.type_names
            THEN MissingLocalTypes_FirstOnly(b, Tail(g), available_types)
            ELSE << [name |-> b.type_names[type_id],
                     debug_site |-> IF type_id \in DOMAIN b.debug_lines
                                    THEN Some(b.debug_lines[type_id]) ELSE None,
                     missing |-> missing_requirements] >>

RECURSIVE MissingLocalTypes(_, _, _)
MissingLocalTypes(b, g, available_types) ==
    IF g = << >> THEN << >>
    ELSE LET missing_requirements == NamesOfSeq(b, NotIn(Head(g).deps, available_types))
             type_id == Head(g).type_id
         IN (IF missing_requirements = << >> \/ type_id \notin DOMAIN b.type_names
             THEN << >>
             ELSE << [name |-> b.type_names[type_id],
                      debug_site |-> IF type_id \in DOMAIN b.debug_lines
                                     THEN Some(b.debug_lines[type_id]) ELSE None,
                      missing |-> missing_requirements] >>)
            \o MissingLocalTypes(b, Tail(g), available_types)

\* (mutant) the lazy-first rule exempts lazy-marked registrations from the pass
verify_missing_deps_LazyExempt(b, additional_types) ==
    LET available_types ==
            additional_types \cup {b.requirements_graph[i].type_id :
                                      i \in DOMAIN b.requirements_graph}
        checked == SelectSeq(b.requirements_graph, LAMBDA r : r.type_id \notin b.lazy_types)
        missing_local_types == MissingLocalTypes(b, checked, available_types)
    IN IF missing_local_types = << >> THEN Ok
       ELSE MissingInjectionValues(missing_local_types)

verify_missing_deps(b, additional_types) ==
    LET available_types ==
            additional_types \cup {b.requirements_graph[i].type_id :
                                      i \in DOMAIN b.requirements_graph}
        missing_local_types == MissingLocalTypes(b, b.requirements_graph, available_types)
    IN IF missing_local_types = << >> THEN Ok
       ELSE MissingInjectionValues(missing_local_types)

\* ------------------------------------------------------------- resolution
\* (mutant) no lazy-first rule: lazy registrations wait for their target
ResolvedLazyTypes_None(b) == {}

\* the lazy-marked keys of the requirements graph
ResolvedLazyTypes(b) ==
    {b.requirements_graph[i].type_id : i \in DOMAIN b.requirements_graph} \cap b.lazy_types

\* collecting (key, deps) pairs into a HashMap keeps the last pair of each key
LastIndex(s, k) == CHOOSE i \in DOMAIN s : s[i].type_id = k /\ \A j \in DOMAIN s : s[j].type_id = k => j <= i

\* (mutant) the lazy-marked keys are not filtered out of left_deps
LeftDeps_WithLazy(b) ==
    LET g == b.requirements_graph
        ks == {g[i].type_id : i \in DOMAIN g}
    IN [k \in ks |-> g[LastIndex(g, k)].deps]

LeftDeps(b) ==
    LET g == b.requirements_graph
        ks == {g[i].type_id : i \in DOMAIN g} \ ResolvedLazyTypes(b)
    IN [k \in ks |-> g[LastIndex(g, k)].deps]

\* (mutant) a registration is resolved as soon as one dependency is available
Resolved_Any(left_deps, available_types) ==
    {k \in DOMAIN left_deps :
        left_deps[k] = << >> \/ \E x \in Range(left_deps[k]) : x \in available_types}

\* the registrations resolvable in this round
Resolved(left_deps, available_types) ==
    {k \in DOMAIN left_deps : \A x \in Range(left_deps[k]) : x \in available_types}

Restrict(m, S) == [x \in (DOMAIN m) \cap S |-> m[x]]

\* (mutant) a round that leaves something unresolved counts as a stall
DryLoop_OneRound(available_types, left_deps, current_len) ==
    LET resolved == Resolved(left_deps, available_types)
        left == Restrict(left_deps, (DOMAIN left_deps) \ resolved)
    IN IF Cardinality(DOMAIN left) = current_len THEN [stalled |-> TRUE, left |-> DOMAIN left]
       ELSE IF DOMAIN left = {} THEN [stalled |-> FALSE, left |-> {}]
       ELSE [stalled |-> TRUE, left |-> DOMAIN left]

\* the loop of traverse_dependencies_and_verify_recursion with an on_resolve
\* that does nothing; the result is the set of keys left, or Ok
RECURSIVE DryLoop(_, _, _)
DryLoop(available_types, left_deps, current_len) ==
    LET resolved == Resolved(left_deps, available_types)
        left == Restrict(left_deps, (DOMAIN left_deps) \ resolved)
        available == available_types \cup resolved
    IN IF Cardinality(DOMAIN left) = current_len THEN [stalled |-> TRUE, left |-> DOMAIN left]
       ELSE IF DOMAIN left = {} THEN [stalled |-> FALSE, left |-> {}]
       ELSE DryLoop(available, left, Cardinality(DOMAIN left))

verify_recursive_deps(b, additional_types) ==
    LET left_deps == LeftDeps(b)
        r == DryLoop(additional_types \cup ResolvedLazyTypes(b), left_deps,
                     Cardinality(DOMAIN left_deps))
    IN IF r.stalled THEN CycleFound(NamesOfSet(b, r.left)) ELSE Ok

\* (mutant) the missing-dependencies pass runs before the duplicates pass
verify_MissingFirst(b, additional_types) ==
    LET additional_deps == additional_types \cup DOMAIN b.static_values
        d == verify_duplicates(b, additional_deps)
        n == verify_nested_lazy_deps(b)
        m == verify_missing_deps(b, additional_deps)
        c == verify_recursive_deps(b, additional_deps)
    IN IF m.kind # "Ok" THEN m
       ELSE IF d.kind # "Ok" THEN d
       ELSE IF n.kind # "Ok" THEN n
       ELSE c

\* verify(additional_types, short_types): the four passes, `?` after each
verify(b, additional_types) ==
    LET additional_deps == additional_types \cup DOMAIN b.static_values
        d == verify_duplicates(b, additional_deps)
        n == verify_nested_lazy_deps(b)
        m == verify_missing_deps(b, additional_deps)
        c == verify_recursive_deps(b, additional_deps)
    IN IF d.kind # "Ok" THEN d
       ELSE IF n.kind # "Ok" THEN n
       ELSE IF m.kind # "Ok" THEN m
       ELSE c

\* builders.into_iter().collect::<HashMap>(): the last builder of each key
\* (mutant) builders_map keeps the builder registered first for a key
BuildersMap_FirstWins(b) ==
    [k \in {b.builders[i].type_id : i \in DOMAIN b.builders} |->
        b.builders[CHOOSE i \in DOMAIN b.builders :
                      /\ b.builders[i].type_id = k
                      /\ \A j \in DOMAIN b.builders : b.builders[j].type_id = k => i <= j].f]

BuildersMap(b) ==
    [k \in {b.builders[i].type_id : i \in DOMAIN b.builders} |->
        b.builders[LastIndex(b.builders, k)].f]

\* (mutant) the value the builder returns is dropped instead of inserted
on_resolve_NoInsert(b, type_id, values) ==
    LET builders_map == BuildersMap(b)
    IN IF type_id \in DOMAIN builders_map
       THEN LET item == CallBuilder(builders_map[type_id], type_id, values)
            IN IF item.kind # "Ok" THEN item
               ELSE OkVal(values)
       ELSE OkVal(values)

\* build()'s on_resolve closure: call the key's builder and insert what it
\* returns; the result is the new values map, or the builder's error
on_resolve(b, type_id, values) ==
    LET builders_map == BuildersMap(b)
    IN IF type_id \in DOMAIN builders_map
       THEN LET item == CallBuilder(builders_map[type_id], type_id, values)
            IN IF item.kind # "Ok" THEN item
               ELSE OkVal(Insert(values, type_id, item.value))
       ELSE OkVal(values)

\* Every outcome of build() as a whole, over the iteration orders of the
\* HashSet of lazy types and of the HashMap left_deps: the error, or
\* OkVal(values of the injector returned).
RECURSIVE ResolveAll(_, _, _)
ResolveAll(b, todo, values) ==
    IF todo = {} THEN {OkVal(values)}
    ELSE UNION {LET r == on_resolve(b, type_id, values)
                IN IF r.kind # "Ok" THEN {r}
                   ELSE ResolveAll(b, todo \ {type_id}, r.value) : type_id \in todo}

RECURSIVE RealLoop(_, _, _, _, _)
RealLoop(b, available, left, len, values) ==
    LET todo == Resolved(left, available)
        left2 == Restrict(left, (DOMAIN left) \ todo)
    IN UNION {IF r.kind # "Ok" THEN {r}
              ELSE IF Cardinality(DOMAIN left2) = len
                   THEN {CantResolve(NamesOfSet(b, DOMAIN left2))}
              ELSE IF DOMAIN left2 = {} THEN {r}
              ELSE RealLoop(b, available \cup todo, left2, Cardinality(DOMAIN left2), r.value)
              : r \in ResolveAll(b, todo, values)}

BuildRuns(b) ==
    LET initial_known_deps == DOMAIN b.static_values
        v == verify(b, initial_known_deps)
    IN IF v.kind # "Ok" THEN {v}
       ELSE UNION {IF r.kind # "Ok" THEN {r}
                   ELSE RealLoop(b, initial_known_deps \cup ResolvedLazyTypes(b),
                                 LeftDeps(b), Cardinality(DOMAIN LeftDeps(b)), r.value)
                   : r \in ResolveAll(b, ResolvedLazyTypes(b), b.static_values)}

\* ------------------------------------------------------- the state machine
VARIABLES
    binder,           \* the InjectionBinder the caller is holding
    pc,               \* "binding", or where build() stands, or how it ended
    result,           \* what build() returned: Ok (with the injector) or the error
    injector,         \* Option: the Injector's values map once Injector::new has run
    available_types,  \* traverse_...: let mut available_types
    lazy_left,        \* traverse_...: lazy types the first for-loop has not reached yet
    left_deps,        \* traverse_...: let mut left_deps
    resolved,         \* traverse_...: what is left of `resolved` in this round
    current_len,      \* traverse_...: let mut current_len
    invoked,          \* the keys whose builder build() has called, in call order
    rounds,           \* the number of the round under way, and the round each key was resolved in
    verified,         \* Option: the last verify() call: its extra keys and its result
    forced,           \* the once_cell of each Lazy value that has been forced: its value
    got,              \* Option: the last get / force on the built injector and its result
    calls,            \* the registration calls that made the binder, in order
    merged,           \* Option: the binder is a.merge(b), a made by this many of the calls (MergeSpec)
    lock,             \* the RwLock around Injector::values: who holds a read guard, who the write guard
    thread            \* where each thread holding a clone of the Injector stands in its call

vars == << binder, pc, result, injector, available_types, lazy_left, left_deps,
           resolved, current_len, invoked, rounds, verified, forced, got, calls, merged,
           lock, thread >>

locals == << available_types, lazy_left, left_deps, resolved, current_len >>
after == << forced, got >>
shared == << lock, thread >>

\* the field types of a struct X deriving Component: a struct has no field of
\* its own type
FieldLists(k) == {s \in DepLists : k \notin Range(s)}

\* the other dependency lists inject_fn is called with (tuples In)
FnDepLists == {s \in DepLists : Len(s) <= 1 /\ \A i \in DOMAIN s : s[i] <= NLazy}
\* the extra known keys verify() is called with
ExtraSets == {{}} \cup {{k} : k \in 1..NLazy}

\* the threads holding a clone of the Injector, and a thread between calls
\* (res: what its last get or force returned)
Threads == 1..NThreads
Idle == [pc |-> "idle", res |-> None]

\* the keys the threads get and insert
SharedKeys == 1..MaxShared

\* a map entry whose write is under way
Torn == [tag |-> "partial"]

\* everything but the Injector's map and the threads
program == << binder, pc, result, locals, invoked, rounds, verified, after, calls, merged >>

Init ==
    /\ binder = InjectionBinder_new
    /\ pc = "binding"
    /\ result = None
    /\ injector = None
    /\ available_types = {}
    /\ lazy_left = {}
    /\ left_deps = EmptyMap
    /\ resolved = {}
    /\ current_len = 0
    /\ invoked = << >>
    /\ rounds = [n |-> 0, of |-> EmptyMap]
    /\ verified = None
    /\ forced = EmptyMap
    /\ got = None
    /\ calls = << >>
    /\ merged = None
    /\ lock = [readers |-> {}, writer |-> {}]
    /\ thread = [t \in Threads |-> Idle]

CanRegister(n) ==
    /\ pc = "binding"
    /\ Len(binder.requirements_graph) + n <= MaxRegs

\* the fields of a struct are fixed by its definition: every inject::<X>()
\* of one X declares the same dependencies (X::dependencies_names())
OneDefinition(cs) ==
    \A i, j \in DOMAIN cs :
        (cs[i].op = "inject" /\ cs[j].op = "inject" /\ cs[i].k = cs[j].k) =>
            cs[i].deps = cs[j].deps

Registered(b, cs, m) ==
    /\ OneDefinition(calls \o cs)
    /\ binder' = b
    /\ calls' = calls \o cs
    /\ merged' = m
    /\ verified' = None
    /\ UNCHANGED << pc, result, injector, locals, invoked, rounds, after, shared >>

\* the registration calls, as data: what a second binder was made by
Calls ==
    [op : {"instance"}, k : Base, x : 1..MaxVal]
    \cup {c \in [op : {"inject"}, k : Base, deps : DepLists] : c.deps \in FieldLists(c.k)}
    \cup [op : {"inject_lazy"}, t : {t \in DepKeys : Lazy(t) \in LazyKeys}]
    \cup [op : {"inject_fn"}, k : Base, deps : FnDepLists]

Apply(b, c) ==
    CASE c.op = "instance" -> instance(b, c.k, c.x)
      [] c.op = "inject" -> inject(b, c.k, c.deps)
      [] c.op = "inject_lazy" -> inject_lazy(b, c.t)
      [] c.op = "inject_fn" -> inject_fn(b, c.k, c.deps)

RECURSIVE Replay(_, _)
Replay(b, cs) == IF cs = << >> THEN b ELSE Replay(Apply(b, Head(cs)), Tail(cs))

\* the call sequences of a binder handed to merge()
OtherCalls(n) == [1..n -> Calls]

Instance ==
    /\ CanRegister(1)
    /\ \E k \in Base : \E x \in 1..MaxVal : Registered(instance(binder, k, x), << [op |-> "instance", k |-> k, x |-> x] >>, None)

Inject ==
    /\ CanRegister(1)
    /\ \E k \in Base : \E deps \in FieldLists(k) : Registered(inject(binder, k, deps), << [op |-> "inject", k |-> k, deps |-> deps] >>, None)

InjectLazy ==
    /\ CanRegister(1)
    /\ \E t \in DepKeys : Lazy(t) \in LazyKeys /\ Registered(inject_lazy(binder, t), << [op |-> "inject_lazy", t |-> t] >>, None)

InjectFn ==
    /\ CanRegister(1)
    /\ \E k \in Base : \E deps \in FnDepLists : Registered(inject_fn(binder, k, deps), << [op |-> "inject_fn", k |-> k, deps |-> deps] >>, None)

\* merge(self, other) with a second binder made by up to MaxOther calls
MergeOther(record) ==
    \E n \in 0..MaxOther :
        /\ CanRegister(n)
        /\ \E cs \in OtherCalls(n) :
              Registered(merge(binder, Replay(InjectionBinder_new, cs)), cs,
                         IF record THEN Some(Len(calls)) ELSE None)

Merge == MergeOther(FALSE)

\* the same, keeping the record of which calls had made self
MergeRecorded == MergeOther(TRUE)

\* (mutant) verify takes the static values out of the binder, as build does
Verify_TakesStatics ==
    /\ pc = "binding"
    /\ \E extra \in ExtraSets :
          verified' = Some([extra |-> extra, res |-> verify(binder, extra)])
    /\ binder' = [binder EXCEPT !.static_values = EmptyMap]
    /\ UNCHANGED << pc, result, injector, locals, invoked, rounds, after, calls, merged, shared >>

\* verify(&self, additional_types, false)
Verify ==
    /\ pc = "binding"
    /\ \E extra \in ExtraSets :
          verified' = Some([extra |-> extra, res |-> verify(binder, extra)])
    /\ UNCHANGED << binder, pc, result, injector, locals, invoked, rounds, after, calls, merged, shared >>

\* (mutant) the traversal starts with every registered key taken as available
Build_AllAvailable ==
    /\ pc = "binding"
    /\ LET initial_known_deps == DOMAIN binder.static_values
           v == verify(binder, initial_known_deps)
       IN IF v.kind # "Ok"
          THEN /\ pc' = "failed"
               /\ result' = Some(v)
               /\ UNCHANGED << injector, locals >>
          ELSE /\ pc' = "lazy"
               /\ injector' = Some(binder.static_values)
               /\ available_types' = initial_known_deps \cup
                     {binder.requirements_graph[i].type_id : i \in DOMAIN binder.requirements_graph}
               /\ lazy_left' = ResolvedLazyTypes(binder)
               /\ UNCHANGED << result, left_deps, resolved, current_len >>
    /\ verified' = None
    /\ UNCHANGED << binder, invoked, rounds, after, calls, merged, shared >>

\* (mutant) Injector::new runs before verify
Build_InjectorFirst ==
    /\ pc = "binding"
    /\ LET initial_known_deps == DOMAIN binder.static_values
           v == verify(binder, initial_known_deps)
       IN /\ injector' = Some(binder.static_values)
          /\ IF v.kind # "Ok"
             THEN /\ pc' = "failed"
                  /\ result' = Some(v)
                  /\ UNCHANGED locals
             ELSE /\ pc' = "lazy"
                  /\ available_types' = initial_known_deps
                  /\ lazy_left' = ResolvedLazyTypes(binder)
                  /\ UNCHANGED << result, left_deps, resolved, current_len >>
    /\ verified' = None
    /\ UNCHANGED << binder, invoked, rounds, after, calls, merged, shared >>

\* build(): verify, then Injector::new and the start of the traversal
Build ==
    /\ pc = "binding"
    /\ LET initial_known_deps == DOMAIN binder.static_values
           v == verify(binder, initial_known_deps)
       IN IF v.kind # "Ok"
          THEN /\ pc' = "failed"
               /\ result' = Some(v)
               /\ UNCHANGED << injector, locals >>
          ELSE /\ pc' = "lazy"
               /\ injector' = Some(binder.static_values)
               /\ available_types' = initial_known_deps
               /\ lazy_left' = ResolvedLazyTypes(binder)
               /\ UNCHANGED << result, left_deps, resolved, current_len >>
    /\ verified' = None
    /\ UNCHANGED << binder, invoked, rounds, after, calls, merged, shared >>

\* the once_cell cells after the builder of type_id has run: an f that
\* dereferences its lazy members fills the cell of each of them, unless a
\* thunk panics
ForcedBy(b, type_id, values, cells) ==
    IF /\ type_id \in DOMAIN BuildersMap(b)
       /\ BuildersMap(b)[type_id].kind = "fn_force"
       /\ CallBuilder(BuildersMap(b)[type_id], type_id, values).kind = "Ok"
    THEN LET lazy_deps == {d \in Range(BuildersMap(b)[type_id].deps) : IsLazyType(d)}
         IN [d \in DOMAIN cells \cup lazy_deps |->
                IF d \in DOMAIN cells THEN cells[d] ELSE values[LazyTarget(d)]]
    ELSE cells

\* (mutant) the error of a builder is dropped and the traversal goes on
OnResolve_SkipsFailure(type_id) ==
    LET r == on_resolve(binder, type_id, injector[1])
    IN /\ invoked' = IF type_id \in DOMAIN BuildersMap(binder)
                     THEN Append(invoked, type_id) ELSE invoked
       /\ forced' = ForcedBy(binder, type_id, injector[1], forced)
       /\ IF r.kind # "Ok"
          THEN UNCHANGED << pc, result, injector >>
          ELSE /\ injector' = Some(r.value)
               /\ UNCHANGED << pc, result >>

\* on_resolve(type_id)? inside the traversal build() runs
OnResolve(type_id) ==
    LET r == on_resolve(binder, type_id, injector[1])
    IN /\ invoked' = IF type_id \in DOMAIN BuildersMap(binder)
                     THEN Append(invoked, type_id) ELSE invoked
       /\ forced' = ForcedBy(binder, type_id, injector[1], forced)
       /\ IF r.kind = "Panic"
          THEN /\ pc' = "panicked"
               /\ UNCHANGED << result, injector >>
          ELSE IF r.kind # "Ok"
          THEN /\ pc' = "failed"
               /\ result' = Some(r)
               /\ UNCHANGED injector
          ELSE /\ injector' = Some(r.value)
               /\ UNCHANGED << pc, result >>

\* one pass of `for lazy_type in resolved_lazy_types`
\* (mutant) the real traversal does not make the lazy types available
InitLazy_NotAvailable ==
    /\ pc = "lazy"
    /\ \E lazy_type \in lazy_left :
        /\ lazy_left' = lazy_left \ {lazy_type}
        /\ OnResolve(lazy_type)
    /\ UNCHANGED << binder, available_types, left_deps, resolved, current_len, rounds,
                    verified, got, calls, merged, shared >>

InitLazy ==
    /\ pc = "lazy"
    /\ \E lazy_type \in lazy_left :
        /\ available_types' = available_types \cup {lazy_type}
        /\ lazy_left' = lazy_left \ {lazy_type}
        /\ OnResolve(lazy_type)
    /\ UNCHANGED << binder, left_deps, resolved, current_len, rounds, verified, got, calls, merged, shared >>

\* (mutant) the loop may start before every lazy type has been initialised
StartLoop_Early ==
    /\ pc = "lazy"
    /\ left_deps' = LeftDeps(binder)
    /\ current_len' = Cardinality(DOMAIN LeftDeps(binder))
    /\ pc' = "round"
    /\ UNCHANGED << binder, result, injector, available_types, lazy_left, resolved,
                    invoked, rounds, verified, after, calls, merged, shared >>

\* let mut left_deps = ...; let mut current_len = left_deps.len();
StartLoop ==
    /\ pc = "lazy"
    /\ lazy_left = {}
    /\ left_deps' = LeftDeps(binder)
    /\ current_len' = Cardinality(DOMAIN LeftDeps(binder))
    /\ pc' = "round"
    /\ UNCHANGED << binder, result, injector, available_types, lazy_left, resolved,
                    invoked, rounds, verified, after, calls, merged, shared >>

\* let resolved: Vec<TypeId> = ...
StartRound ==
    /\ pc = "round"
    /\ resolved' = Resolved(left_deps, available_types)
    /\ pc' = "resolving"
    /\ rounds' = [rounds EXCEPT !.n = @ + 1]
    /\ UNCHANGED << binder, result, injector, available_types, lazy_left, left_deps,
                    current_len, invoked, verified, after, calls, merged, shared >>

\* (mutant) a resolved key is not removed from left_deps
Resolve_KeepsLeft ==
    /\ pc = "resolving"
    /\ \E type_id \in resolved :
        /\ available_types' = available_types \cup {type_id}
        /\ resolved' = resolved \ {type_id}
        /\ rounds' = [rounds EXCEPT !.of = MapInsert(@, type_id, rounds.n)]
        /\ OnResolve(type_id)
    /\ UNCHANGED << binder, lazy_left, left_deps, current_len, verified, got, calls, merged, shared >>

\* (mutant) eligibility is decided again after every resolution of the round
Resolve_Rescan ==
    /\ pc = "resolving"
    /\ \E type_id \in resolved :
        /\ left_deps' = MapRemove(left_deps, type_id)
        /\ available_types' = available_types \cup {type_id}
        /\ resolved' = (resolved \ {type_id}) \cup
                       Resolved(MapRemove(left_deps, type_id), available_types \cup {type_id})
        /\ rounds' = [rounds EXCEPT !.of = MapInsert(@, type_id, rounds.n)]
        /\ OnResolve(type_id)
    /\ UNCHANGED << binder, lazy_left, current_len, verified, got, calls, merged, shared >>

\* one pass of `for type_id in resolved`
Resolve ==
    /\ pc = "resolving"
    /\ \E type_id \in resolved :
        /\ left_deps' = MapRemove(left_deps, type_id)
        /\ available_types' = available_types \cup {type_id}
        /\ resolved' = resolved \ {type_id}
        /\ rounds' = [rounds EXCEPT !.of = MapInsert(@, type_id, rounds.n)]
        /\ OnResolve(type_id)
    /\ UNCHANGED << binder, lazy_left, current_len, verified, got, calls, merged, shared >>

\* the end of the loop body: stall, success, or another round
EndRound ==
    /\ pc = "resolving"
    /\ resolved = {}
    /\ IF Cardinality(DOMAIN left_deps) = current_len
       THEN /\ pc' = "failed"
            /\ result' = Some(CantResolve(NamesOfSet(binder, DOMAIN left_deps)))
            /\ UNCHANGED current_len
       ELSE /\ current_len' = Cardinality(DOMAIN left_deps)
            /\ IF DOMAIN left_deps = {}
               THEN pc' = "done" /\ result' = Some(Ok)
               ELSE pc' = "round" /\ UNCHANGED result
    /\ UNCHANGED << binder, injector, available_types, lazy_left, left_deps, resolved,
                    invoked, rounds, verified, after, calls, merged, shared >>

\* Injector::get::<X>() on the injector build() returned
GetValue ==
    /\ pc = "done"
    /\ \E k \in Keys : got' = Some([op |-> "get", key |-> k, res |-> Get(injector[1], k)])
    /\ UNCHANGED << binder, pc, result, injector, locals, invoked, rounds, verified, forced, calls, merged, shared >>

\* dereferencing the Lazy<T> stored under lazy_type: once_cell runs the thunk
\* (injector.get::<T>(), unreachable!() on Err) the first time only
\* (mutant) forcing a lazy value replaces its entry of the registry by the
\* target's value
Force_StoresInRegistry ==
    /\ pc = "done"
    /\ \E lazy_type \in DOMAIN injector[1] :
        /\ injector[1][lazy_type].tag = "thunk"
        /\ LET x == Get(injector[1], injector[1][lazy_type].target)
           IN /\ x.kind = "Ok"
              /\ forced' = MapInsert(forced, lazy_type, x.value)
              /\ got' = Some([op |-> "force", key |-> lazy_type, res |-> x])
              /\ injector' = Some(Insert(injector[1], lazy_type, x.value))
    /\ UNCHANGED << binder, pc, result, locals, invoked, rounds, verified, calls, merged, shared >>

Force ==
    /\ pc = "done"
    /\ \E lazy_type \in DOMAIN injector[1] :
        /\ injector[1][lazy_type].tag = "thunk"
        /\ IF lazy_type \in DOMAIN forced
           THEN /\ got' = Some([op |-> "force", key |-> lazy_type,
                                res |-> OkVal(forced[lazy_type])])
                /\ UNCHANGED << forced, pc >>
           ELSE LET x == Get(injector[1], injector[1][lazy_type].target)
                IN IF x.kind = "Ok"
                   THEN /\ forced' = MapInsert(forced, lazy_type, x.value)
                        /\ got' = Some([op |-> "force", key |-> lazy_type, res |-> x])
                        /\ UNCHANGED pc
                   ELSE /\ pc' = "panicked"
                        /\ UNCHANGED << forced, got >>
    /\ UNCHANGED << binder, result, injector, locals, invoked, rounds, verified, calls, merged, shared >>

Next ==
    \/ Instance
    \/ Inject
    \/ InjectLazy
    \/ InjectFn
    \/ Merge
    \/ Verify
    \/ Build
    \/ InitLazy
    \/ StartLoop
    \/ StartRound
    \/ Resolve
    \/ EndRound
    \/ GetValue
    \/ Force

Spec == Init /\ [][Next]_vars

\* the programs that register, merge and build: a.merge(b).build()
NextMerge ==
    \/ Instance
    \/ Inject
    \/ InjectLazy
    \/ InjectFn
    \/ MergeRecorded
    \/ Build
    \/ InitLazy
    \/ StartLoop
    \/ StartRound
    \/ Resolve
    \/ EndRound

MergeSpec == Init /\ [][NextMerge]_vars

\* the type parameter LastType of the InjectionBinder<LastType> a chain of
\* calls on InjectionBinder::new() returns: instance returns Self, inject::<X>
\* InjectionBinder<X>, inject_fn InjectionBinder<R>, and the auto calls
\* change_type::<LastType>()
RECURSIVE LastType(_)
LastType(cs) ==
    IF cs = << >> THEN Unit
    ELSE LET c == cs[Len(cs)]
             self == LastType(SubSeq(cs, 1, Len(cs) - 1))
         IN CASE c.op = "instance" -> self
              [] c.op = "inject" -> c.k
              [] c.op = "inject_lazy" -> Lazy(c.t)
              [] c.op = "inject_fn" -> c.k
              [] c.op = "auto" -> self
              [] c.op = "auto_box" -> self
              [] c.op = "auto_arc" -> self

\* .auto(f) for f : LastType -> Din
Auto ==
    /\ CanRegister(1)
    /\ \E din \in Base :
          Registered(auto(binder, LastType(calls), din), << [op |-> "auto", k |-> din] >>, None)

\* .auto_box()
AutoBox ==
    /\ CanRegister(1)
    /\ Registered(auto_box(binder, LastType(calls)), << [op |-> "auto_box"] >>, None)

\* .auto_arc()
AutoArc ==
    /\ CanRegister(1)
    /\ Registered(auto_arc(binder, LastType(calls)), << [op |-> "auto_arc"] >>, None)

\* the programs that register with the auto calls too, and build
NextAuto ==
    \/ Instance
    \/ Inject
    \/ InjectLazy
    \/ InjectFn
    \/ Auto
    \/ AutoBox
    \/ AutoArc
    \/ Build
    \/ InitLazy
    \/ StartLoop
    \/ StartRound
    \/ Resolve
    \/ EndRound

AutoSpec == Init /\ [][NextAuto]_vars

\* .inject_fn_ok(f) with an f that returns Err(..)
InjectFnOk ==
    /\ CanRegister(1)
    /\ \E k \in Base : \E deps \in FnDepLists :
          Registered(inject_fn_ok(binder, k, deps),
                     << [op |-> "inject_fn_ok", k |-> k, deps |-> deps] >>, None)

\* the steps of build() after its first: the traversal
Traverse ==
    \/ InitLazy
    \/ StartLoop
    \/ StartRound
    \/ Resolve
    \/ EndRound

\* the programs that register builders that may fail, and build
NextFail ==
    \/ Instance
    \/ Inject
    \/ InjectLazy
    \/ InjectFn
    \/ InjectFnOk
    \/ Build
    \/ InitLazy
    \/ StartLoop
    \/ StartRound
    \/ Resolve
    \/ EndRound

FailSpec == Init /\ [][NextFail]_vars

\* build() is one sequential call: once it is under way, its next step is taken
FairSpec == FailSpec /\ WF_vars(Traverse)

\* ------------------- builds with builders that force their lazy dependency
\* the tuples of an f that dereferences its lazy member
ForceDepLists == {<< Lazy(t) >> : t \in 1..NLazy}

\* inject_fn(f) with an f that takes a Lazy<T> and dereferences it
InjectFnForce ==
    /\ CanRegister(1)
    /\ \E k \in Base : \E deps \in ForceDepLists :
          Registered(inject_fn_force(binder, k, deps),
                     << [op |-> "inject_fn_force", k |-> k, deps |-> deps] >>, None)

NextForce ==
    \/ Instance
    \/ Inject
    \/ InjectLazy
    \/ InjectFnForce
    \/ Build
    \/ InitLazy
    \/ StartLoop
    \/ StartRound
    \/ Resolve
    \/ EndRound

ForceSpec == Init /\ [][NextForce]_vars

\* the tuple types get_tuple is called with: members in any order, repeats too
Tuples == UNION {[1..n -> Keys] : n \in 0..MaxTuple}

\* Injector::get_tuple::<Tuple>() on the injector build() returned
GetTuple ==
    /\ pc = "done"
    /\ \E tuple \in Tuples :
          got' = Some([op |-> "get_tuple", key |-> tuple,
                       res |-> ReadFromInjector(injector[1], tuple, 1, << >>)])
    /\ UNCHANGED << binder, pc, result, injector, locals, invoked, rounds, verified, forced, calls, merged, shared >>

\* the programs that register, build and read tuples from the registry
NextTuple ==
    \/ Instance
    \/ Inject
    \/ InjectLazy
    \/ InjectFn
    \/ Build
    \/ InitLazy
    \/ StartLoop
    \/ StartRound
    \/ Resolve
    \/ EndRound
    \/ GetTuple

TupleSpec == Init /\ [][NextTuple]_vars

\* ------------------------- every read of the registry build() has returned
NextFrozen ==
    \/ Instance
    \/ Inject
    \/ InjectLazy
    \/ InjectFn
    \/ Build
    \/ InitLazy
    \/ StartLoop
    \/ StartRound
    \/ Resolve
    \/ EndRound
    \/ GetValue
    \/ GetTuple
    \/ Force

FrozenSpec == Init /\ [][NextFrozen]_vars

\* ------------------------------------- threads sharing one Injector's map
\* Injector::new(values)
InjectorValues ==
    {EmptyMap} \cup {MapInsert(EmptyMap, k, InstVal(x)) : k \in SharedKeys, x \in 1..MaxVal}

InjectorInit ==
    /\ binder = InjectionBinder_new
    /\ pc = "binding"
    /\ result = None
    /\ \E values \in InjectorValues : injector = Some(values)
    /\ available_types = {}
    /\ lazy_left = {}
    /\ left_deps = EmptyMap
    /\ resolved = {}
    /\ current_len = 0
    /\ invoked = << >>
    /\ rounds = [n |-> 0, of |-> EmptyMap]
    /\ verified = None
    /\ forced = EmptyMap
    /\ got = None
    /\ calls = << >>
    /\ merged = None
    /\ lock = [readers |-> {}, writer |-> {}]
    /\ thread = [t \in Threads |-> Idle]

\* get: self.values.read() returns once no thread holds the write guard
GetRead ==
    \E t \in Threads : \E k \in SharedKeys :
        /\ thread[t].pc = "idle"
        /\ lock.writer = {}
        /\ lock' = [lock EXCEPT !.readers = @ \cup {t}]
        /\ thread' = [thread EXCEPT ![t] = [pc |-> "get", key |-> k]]
        /\ UNCHANGED << injector, program >>

\* get: .get(&type_id) ... .cloned().ok_or_else(..); the read guard is dropped
GetReturn ==
    \E t \in Threads :
        /\ thread[t].pc = "get"
        /\ lock' = [lock EXCEPT !.readers = @ \ {t}]
        /\ thread' = [thread EXCEPT ![t] =
                         [pc |-> "idle",
                          res |-> Some([op |-> "get", key |-> thread[t].key,
                                        res |-> Get(injector[1], thread[t].key)])]]
        /\ UNCHANGED << injector, program >>

\* insert(type_id, item) is called
InsertCall ==
    \E t \in Threads : \E k \in SharedKeys : \E x \in 1..MaxVal :
        /\ thread[t].pc = "idle"
        /\ thread' = [thread EXCEPT ![t] = [pc |-> "insert", key |-> k, item |-> InstVal(x)]]
        /\ UNCHANGED << injector, lock, program >>

\* (mutant) insert takes its guard without waiting for the readers
InsertWrite_IgnoresReaders ==
    \E t \in Threads :
        /\ thread[t].pc = "insert"
        /\ lock.writer = {}
        /\ lock' = [lock EXCEPT !.writer = {t}]
        /\ thread' = [thread EXCEPT ![t].pc = "storing"]
        /\ UNCHANGED << injector, program >>

\* insert: self.values.write() returns once no thread holds any guard
InsertWrite ==
    \E t \in Threads :
        /\ thread[t].pc = "insert"
        /\ lock.readers = {}
        /\ lock.writer = {}
        /\ lock' = [lock EXCEPT !.writer = {t}]
        /\ thread' = [thread EXCEPT ![t].pc = "storing"]
        /\ UNCHANGED << injector, program >>

\* insert: HashMap::insert has begun to write the entry
InsertStore ==
    \E t \in Threads :
        /\ thread[t].pc = "storing"
        /\ injector' = Some(MapInsert(injector[1], thread[t].key, Torn))
        /\ thread' = [thread EXCEPT ![t].pc = "stored"]
        /\ UNCHANGED << lock, program >>

\* insert: the entry is written; the write guard is dropped
InsertReturn ==
    \E t \in Threads :
        /\ thread[t].pc = "stored"
        /\ injector' = Some(Insert(injector[1], thread[t].key, thread[t].item))
        /\ lock' = [lock EXCEPT !.writer = @ \ {t}]
        /\ thread' = [thread EXCEPT ![t] = Idle]
        /\ UNCHANGED program

InjectorNext ==
    \/ GetRead
    \/ GetReturn
    \/ InsertCall
    \/ InsertWrite
    \/ InsertStore
    \/ InsertReturn

InjectorSpec == InjectorInit /\ [][InjectorNext]_vars

\* ------------------------- threads sharing the registry build() returned
\* the programs that register a lazy value with up to MaxBuilt calls
LazyPrograms ==
    {cs \in UNION {[1..n -> Calls] : n \in 1..MaxBuilt} :
        OneDefinition(cs) /\ \E i \in DOMAIN cs : cs[i].op = "inject_lazy"}

SharedInit ==
    /\ \E cs \in LazyPrograms :
          /\ calls = cs
          /\ binder = Replay(InjectionBinder_new, cs)
    /\ pc = "binding"
    /\ result = None
    /\ injector = None
    /\ available_types = {}
    /\ lazy_left = {}
    /\ left_deps = EmptyMap
    /\ resolved = {}
    /\ current_len = 0
    /\ invoked = << >>
    /\ rounds = [n |-> 0, of |-> EmptyMap]
    /\ verified = None
    /\ forced = EmptyMap
    /\ got = None
    /\ merged = None
    /\ lock = [readers |-> {}, writer |-> {}]
    /\ thread = [t \in Threads |-> Idle]

\* the threads that are running the thunk of lazy_type
Running(lazy_type) ==
    {t \in Threads : thread[t].pc \in {"thunk", "thunk_get"} /\ thread[t].key = lazy_type}

Returned(op, key, res) == [pc |-> "idle", res |-> Some([op |-> op, key |-> key, res |-> res])]

\* a thread gets a value from the registry build() returned
SharedGetRead == pc = "done" /\ GetRead

\* (mutant) a thread that finds the cell empty runs the thunk without waiting
\* for the thread that is running it
ForceCall_NoWait ==
    /\ pc = "done"
    /\ \E t \in Threads : \E lazy_type \in DOMAIN injector[1] :
        /\ thread[t].pc = "idle"
        /\ injector[1][lazy_type].tag = "thunk"
        /\ thread' = [thread EXCEPT ![t] =
              IF lazy_type \in DOMAIN forced
              THEN Returned("force", lazy_type, OkVal(forced[lazy_type]))
              ELSE [pc |-> "thunk", key |-> lazy_type]]
    /\ UNCHANGED << injector, lock, program >>

\* a thread dereferences the Lazy<T> stored under lazy_type: once_cell returns
\* the stored value, or has this thread run the thunk, or has it wait for the
\* thread that is running it
ForceCall ==
    /\ pc = "done"
    /\ \E t \in Threads : \E lazy_type \in DOMAIN injector[1] :
        /\ thread[t].pc = "idle"
        /\ injector[1][lazy_type].tag = "thunk"
        /\ thread' = [thread EXCEPT ![t] =
              IF lazy_type \in DOMAIN forced
              THEN Returned("force", lazy_type, OkVal(forced[lazy_type]))
              ELSE IF Running(lazy_type) # {}
              THEN [pc |-> "force_wait", key |-> lazy_type]
              ELSE [pc |-> "thunk", key |-> lazy_type]]
    /\ UNCHANGED << injector, lock, program >>

\* the thunk's injector.get::<T>(): self.values.read()
ThunkRead ==
    \E t \in Threads :
        /\ thread[t].pc = "thunk"
        /\ lock.writer = {}
        /\ lock' = [lock EXCEPT !.readers = @ \cup {t}]
        /\ thread' = [thread EXCEPT ![t].pc = "thunk_get"]
        /\ UNCHANGED << injector, program >>

\* (mutant) the thunk of Lazy<T> looks up Lazy<T> itself
ThunkReturn_OwnKey ==
    \E t \in Threads :
        /\ thread[t].pc = "thunk_get"
        /\ lock' = [lock EXCEPT !.readers = @ \ {t}]
        /\ LET lazy_type == thread[t].key
               x == Get(injector[1], lazy_type)
           IN IF x.kind = "Ok"
              THEN /\ forced' = MapInsert(forced, lazy_type, x.value)
                   /\ thread' = [thread EXCEPT ![t] = Returned("force", lazy_type, x)]
                   /\ UNCHANGED pc
              ELSE /\ pc' = "panicked"
                   /\ UNCHANGED << forced, thread >>
        /\ UNCHANGED << binder, result, injector, locals, invoked, rounds, verified, got, calls, merged >>

\* the thunk's match: Ok(x) => x is stored in the cell, _ => unreachable!()
ThunkReturn ==
    \E t \in Threads :
        /\ thread[t].pc = "thunk_get"
        /\ lock' = [lock EXCEPT !.readers = @ \ {t}]
        /\ LET lazy_type == thread[t].key
               x == Get(injector[1], injector[1][lazy_type].target)
           IN IF x.kind = "Ok"
              THEN /\ forced' = MapInsert(forced, lazy_type, x.value)
                   /\ thread' = [thread EXCEPT ![t] = Returned("force", lazy_type, x)]
                   /\ UNCHANGED pc
              ELSE /\ pc' = "panicked"
                   /\ UNCHANGED << forced, thread >>
        /\ UNCHANGED << binder, result, injector, locals, invoked, rounds, verified, got, calls, merged >>

\* a waiting thread finds the cell filled
ForceWake ==
    \E t \in Threads :
        /\ thread[t].pc = "force_wait"
        /\ thread[t].key \in DOMAIN forced
        /\ thread' = [thread EXCEPT ![t] =
                         Returned("force", thread[t].key, OkVal(forced[thread[t].key]))]
        /\ UNCHANGED << injector, lock, program >>

SharedNext ==
    \/ Build
    \/ InitLazy
    \/ StartLoop
    \/ StartRound
    \/ Resolve
    \/ EndRound
    \/ SharedGetRead
    \/ GetReturn
    \/ ForceCall
    \/ ThunkRead
    \/ ThunkReturn
    \/ ForceWake

SharedSpec == SharedInit /\ [][SharedNext]_vars

\* ----------------------------------------------------- what the claims say
\* the keys registered on a binder (by instance or with a builder)
RegKeys(b) == {b.requirements_graph[i].type_id : i \in DOMAIN b.requirements_graph}

\* the keys the registrations of the keys in S declare as dependencies
DepsOf(b, S) ==
    UNION {Range(b.requirements_graph[i].deps) :
              i \in {j \in DOMAIN b.requirements_graph : b.requirements_graph[j].type_id \in S}}

\* a dependency graph: for each key, the keys it depends on
AllDeps(b) == [k \in Keys |-> DepsOf(b, {k})]

Successors(G, S) == UNION {G[k] : k \in S \cap DOMAIN G}

RECURSIVE Closure(_, _, _)
Closure(G, S, n) == IF n = 0 THEN S ELSE Closure(G, S \cup Successors(G, S), n - 1)

\* everything k depends on in G, directly or through other keys
Descendants(G, k) == Closure(G, Successors(G, {k}), Cardinality(Keys))

\* the keys that lie on a cycle of G
OnCycle(G) == {k \in DOMAIN G : k \in Descendants(G, k)}

Acyclic(b) == OnCycle(AllDeps(b)) = {}

AllDepsRegistered(b) == DepsOf(b, RegKeys(b)) \subseteq RegKeys(b)

BuildEnded == pc \in {"done", "failed"}

\* the value of key k as the registrations define it: what instance() was
\* given, or the builder's function of the values of its declared dependencies
RECURSIVE Denotation(_, _, _)
Denotation(b, k, fuel) ==
    IF fuel = 0 \/ k \notin RegKeys(b) THEN [tag |-> "undefined"]
    ELSE IF k \in DOMAIN BuildersMap(b)
    THEN LET f == BuildersMap(b)[k]
         IN IF f.kind = "lazy" THEN ThunkVal(f.deps[1])
            ELSE BuiltVal(f.kind, k, [i \in DOMAIN f.deps |-> Denotation(b, f.deps[i], fuel - 1)])
    ELSE b.static_values[k]

Denoted(b) == [k \in RegKeys(b) |-> Denotation(b, k, Cardinality(Keys) + 1)]

Permuted(cs, p) == [i \in DOMAIN cs |-> cs[p[i]]]

\* C1: for every binder whose registrations form an acyclic graph with every
\* declared dependency registered, build() succeeds, every value in the
\* registry is the one the registrations define from the instance() values,
\* and build() of every permutation of the calls returns the same registry.
C1_AcyclicBuildSucceeds ==
    (BuildEnded /\ Acyclic(binder) /\ AllDepsRegistered(binder)) =>
        /\ pc = "done"
        /\ injector[1] = Denoted(binder)
        /\ \A p \in Permutations(DOMAIN calls) :
             BuildRuns(Replay(InjectionBinder_new, Permuted(calls, p))) = {OkVal(injector[1])}

\* what build() returned, once it has
BuildResult == result[1]

\* the registrations (positions in the requirements graph) with a dependency
NonTrivial(b) == {i \in DOMAIN b.requirements_graph : b.requirements_graph[i].deps # << >>}

\* keys registered twice by registrations that both declare dependencies
TwiceRegistered(b) ==
    {k \in Keys : \E i, j \in NonTrivial(b) :
        i # j /\ b.requirements_graph[i].type_id = k /\ b.requirements_graph[j].type_id = k}

NamesDuplicate(r, b) ==
    /\ r.kind = "Duplicates"
    /\ \A k \in TwiceRegistered(b) : TypeName(k) \in r.names

\* C2: a key registered twice with non-empty dependency lists makes build()
\* and verify() fail with the duplication error naming that key, wherever the
\* two registrations stand and whatever else is registered.
C2_DuplicateAlwaysReported ==
    TwiceRegistered(binder) # {} =>
        /\ BuildEnded => pc = "failed" /\ NamesDuplicate(BuildResult, binder)
        /\ verified # None => NamesDuplicate(verified[1].res, binder)

\* build() has failed on a binder whose duplicate pair comes after another
\* registration of a different key
C2_Witness ==
    /\ pc = "failed"
    /\ \E i, j \in NonTrivial(binder) :
        /\ 1 < i /\ i < j
        /\ binder.requirements_graph[i].type_id = binder.requirements_graph[j].type_id
        /\ binder.requirements_graph[1].type_id # binder.requirements_graph[i].type_id

\* the declared dependencies of registration i that nothing registers
MissingOf(b, i) == Range(b.requirements_graph[i].deps) \ RegKeys(b)

HasMissing(b) == \E i \in DOMAIN b.requirements_graph : MissingOf(b, i) # {}

\* a key with dependencies that is registered twice, or is also a known key
HasDuplicate(b, known) ==
    \E i \in NonTrivial(b) :
        \/ b.requirements_graph[i].type_id \in known
        \/ \E j \in NonTrivial(b) :
              j # i /\ b.requirements_graph[j].type_id = b.requirements_graph[i].type_id

\* a lazy-marked registration that depends on a lazy-marked key
NestedAt(b) ==
    {i \in DOMAIN b.requirements_graph :
        /\ b.requirements_graph[i].type_id \in b.lazy_types
        /\ Range(b.requirements_graph[i].deps) \cap b.lazy_types # {}}

HasNestedLazy(b) == NestedAt(b) # {}

\* r is the missing-dependencies error: it names every dependent with each of
\* its missing types, and every component it names has a missing dependency
NamesMissing(r, b) ==
    /\ r.kind = "MissingDependencies"
    /\ \A i \in DOMAIN b.requirements_graph : \A m \in MissingOf(b, i) :
          \E e \in Range(r.per_component) :
              /\ e.name = TypeName(b.requirements_graph[i].type_id)
              /\ TypeName(m) \in Range(e.missing)
    /\ \A e \in Range(r.per_component) :
          \E i \in DOMAIN b.requirements_graph :
              /\ e.name = TypeName(b.requirements_graph[i].type_id)
              /\ MissingOf(b, i) # {}

\* C3 (as claimed): a registration with a dependency that is neither
\* registered nor an instance makes build() fail with the missing-dependencies
\* error, which names the dependent and the missing type and no component whose
\* declared dependencies are all registered.
C3_MissingAlwaysReported ==
    (BuildEnded /\ HasMissing(binder)) =>
        pc = "failed" /\ NamesMissing(BuildResult, binder)

\* C3 (amended): the same, for binders to which neither the duplicates pass
\* nor the nested-lazy pass, which run first, objects.
C3_MissingReportedAfterEarlierPasses ==
    (/\ BuildEnded
     /\ HasMissing(binder)
     /\ ~HasDuplicate(binder, DOMAIN binder.static_values)
     /\ ~HasNestedLazy(binder)) =>
        pc = "failed" /\ NamesMissing(BuildResult, binder)

\* build() has reported a missing dependency of one component (registered by
\* inject_fn) while another registered component has all its dependencies
C3_Witness ==
    /\ pc = "failed"
    /\ BuildResult.kind = "MissingDependencies"
    /\ \E i, j \in DOMAIN binder.requirements_graph :
        /\ MissingOf(binder, i) # {}
        /\ \E n \in DOMAIN binder.builders :
              /\ binder.builders[n].type_id = binder.requirements_graph[i].type_id
              /\ binder.builders[n].f.kind = "fn"
        /\ binder.requirements_graph[j].deps # << >>
        /\ MissingOf(binder, j) = {}

\* the dependencies among the registrations that are not lazy-marked
NonLazyDeps(b) ==
    [k \in Keys |-> IF k \in b.lazy_types THEN {} ELSE DepsOf(b, {k}) \ b.lazy_types]

\* r is the cycle error for the cycles of G: it names every key on a cycle and
\* no key that neither is on a cycle nor depends on one
NamesCycle(r, G) ==
    /\ r.kind = "DependencyCycle"
    /\ \A k \in OnCycle(G) : TypeName(k) \in r.names
    /\ \A k \in Keys :
          (k \notin OnCycle(G) /\ Descendants(G, k) \cap OnCycle(G) = {}) =>
              TypeName(k) \notin r.names

NoEarlierError(b) ==
    /\ ~HasDuplicate(b, DOMAIN b.static_values)
    /\ ~HasNestedLazy(b)
    /\ ~HasMissing(b)

\* C4 (as claimed): a dependency cycle among the non-lazy registrations, with
\* no duplicate, nested-lazy or missing-dependency error, makes build() fail
\* with the cycle error, which names every cycle member and no component that
\* can be resolved without a cycle member.
C4_CycleAlwaysReported ==
    (BuildEnded /\ NoEarlierError(binder) /\ OnCycle(NonLazyDeps(binder)) # {}) =>
        pc = "failed" /\ NamesCycle(BuildResult, NonLazyDeps(binder))

\* the position of the last registration of key k
LastRegistration(b, k) ==
    CHOOSE i \in DOMAIN b.requirements_graph :
        /\ b.requirements_graph[i].type_id = k
        /\ \A j \in DOMAIN b.requirements_graph :
              b.requirements_graph[j].type_id = k => j <= i

\* the dependencies among the non-lazy keys, taking for each key the
\* dependency list of its last registration
LastNonLazyDeps(b) ==
    [k \in Keys |->
        IF k \in b.lazy_types \/ k \notin RegKeys(b) THEN {}
        ELSE Range(b.requirements_graph[LastRegistration(b, k)].deps) \ b.lazy_types]

\* C4 (amended): the same, where the dependency list of a key is the one of its
\* last registration (a later registration of the key replaces the list of an
\* earlier one, and a later one without dependencies is no duplicate).
C4_CycleOfLastRegistrationsReported ==
    (BuildEnded /\ NoEarlierError(binder) /\ OnCycle(LastNonLazyDeps(binder)) # {}) =>
        pc = "failed" /\ NamesCycle(BuildResult, LastNonLazyDeps(binder))

\* build() has reported a cycle of two keys while a third, pending component
\* with a dependency of its own is resolvable and not named
C4_Witness ==
    /\ pc = "failed"
    /\ BuildResult.kind = "DependencyCycle"
    /\ Cardinality(BuildResult.names) = 2
    /\ \E i \in NonTrivial(binder) :
          TypeName(binder.requirements_graph[i].type_id) \notin BuildResult.names

\* there are dependency cycles, each passes through a lazy-marked key, and the
\* target of every lazy-marked key on a cycle is registered
CyclesBrokenByLazy(b) ==
    /\ OnCycle(AllDeps(b)) # {}
    /\ OnCycle(NonLazyDeps(b)) = {}
    /\ DepsOf(b, OnCycle(AllDeps(b)) \cap b.lazy_types) \subseteq RegKeys(b)

\* the last force returned what get of the lazy value's target returns
ForceAgreesWithGet ==
    (got # None /\ got[1].op = "force") =>
        got[1].res = Get(injector[1], LazyTarget(got[1].key))

\* C5 (as claimed): if every dependency cycle passes through a lazy-marked
\* component whose target is registered, build() succeeds, and forcing the lazy
\* value afterwards returns what get of its target returns.
C5_LazyBreaksCycle ==
    (CyclesBrokenByLazy(binder) /\ pc \in {"done", "failed", "panicked"}) =>
        pc = "done" /\ ForceAgreesWithGet

\* C5 (amended): the same, for binders to which the duplicates, nested-lazy
\* and missing-dependencies passes do not object.
C5_LazyBreaksCycleOfValidBinder ==
    (/\ CyclesBrokenByLazy(binder)
     /\ NoEarlierError(binder)
     /\ pc \in {"done", "failed", "panicked"}) =>
        pc = "done" /\ ForceAgreesWithGet

\* a lazy value on a cycle of three registrations has been forced after build()
C5_Witness ==
    /\ pc = "done"
    /\ got # None /\ got[1].op = "force"
    /\ got[1].key \in OnCycle(AllDeps(binder))
    /\ Cardinality(OnCycle(AllDeps(binder))) = 3

\* r is the nested-lazy error and names every lazy-marked key that depends on
\* a lazy-marked key
NamesNested(r, b) ==
    /\ r.kind = "NestedLazy"
    /\ \A i \in NestedAt(b) : TypeName(b.requirements_graph[i].type_id) \in Range(r.names)

\* C6 (as claimed): a lazy-marked registration that depends on a lazy-marked
\* key makes build() and verify() fail with the nested-lazy error naming it,
\* even when every dependency is registered.
C6_NestedLazyAlwaysReported ==
    HasNestedLazy(binder) =>
        /\ BuildEnded => pc = "failed" /\ NamesNested(BuildResult, binder)
        /\ verified # None => NamesNested(verified[1].res, binder)

\* C6 (amended): the same, unless the duplicates pass, which runs first,
\* reports an error.
C6_NestedLazyReportedAfterDuplicates ==
    HasNestedLazy(binder) =>
        /\ (BuildEnded /\ ~HasDuplicate(binder, DOMAIN binder.static_values)) =>
              pc = "failed" /\ NamesNested(BuildResult, binder)
        /\ (/\ verified # None
            /\ ~HasDuplicate(binder, verified[1].extra \cup DOMAIN binder.static_values)) =>
              NamesNested(verified[1].res, binder)

\* build() has rejected Lazy<Lazy<T>> next to Lazy<T> with T registered
C6_Witness ==
    /\ pc = "failed"
    /\ BuildResult.kind = "NestedLazy"
    /\ HasNestedLazy(binder)
    /\ ~HasMissing(binder)

\* the two binders of a.merge(b): a is made by the first n calls, b by the rest
MergedSelf == Replay(InjectionBinder_new, SubSeq(calls, 1, merged[1]))
MergedOther == Replay(InjectionBinder_new, SubSeq(calls, merged[1] + 1, Len(calls)))

\* an outcome of build(): the registry contents, or the kind of the failure
Outcome(r) == IF r.kind = "Ok" THEN r ELSE [kind |-> r.kind]
BuildOutcome == IF pc = "done" THEN OkVal(injector[1]) ELSE [kind |-> BuildResult.kind]

\* the outcome that this build() gave is one that build() on the single
\* binder made by the calls cs gives (the order in which build() goes through
\* its HashMap is not fixed)
SameAsSingleBinder(cs) ==
    BuildOutcome \in {Outcome(r) : r \in BuildRuns(Replay(InjectionBinder_new, cs))}

\* C7 (as claimed): a.merge(b).build() gives the outcome of build() on a single
\* binder on which the registrations of a and of b were made in any order, and
\* the static values, builders, dependency lists, lazy marks and debug sites
\* of a and of b are all in a.merge(b).
C7_MergeAsSingleBinderAnyOrder ==
    merged # None =>
        /\ BuildEnded =>
              \A p \in Permutations(DOMAIN calls) : SameAsSingleBinder(Permuted(calls, p))
        /\ \A o \in {MergedSelf, MergedOther} :
              /\ DOMAIN o.static_values \subseteq DOMAIN binder.static_values
              /\ Range(o.builders) \subseteq Range(binder.builders)
              /\ Range(o.requirements_graph) \subseteq Range(binder.requirements_graph)
              /\ o.lazy_types \subseteq binder.lazy_types
              /\ DOMAIN o.debug_lines \subseteq DOMAIN binder.debug_lines

\* C7 (amended): a.merge(b).build() gives the outcome of build() on a single
\* binder on which the registrations of a were made and then those of b, in
\* their order; a.merge(b) is that binder: the builders and dependency lists
\* of a followed by those of b, the lazy marks and debug sites of both, the
\* static values of b and those of a that b does not supply.
C7_MergeAsSingleBinderInOrder ==
    merged # None =>
        /\ BuildEnded => SameAsSingleBinder(calls)
        /\ binder = Replay(InjectionBinder_new, calls)
        /\ binder.builders = MergedSelf.builders \o MergedOther.builders
        /\ binder.requirements_graph =
              MergedSelf.requirements_graph \o MergedOther.requirements_graph
        /\ binder.lazy_types = MergedSelf.lazy_types \cup MergedOther.lazy_types
        /\ DOMAIN binder.debug_lines =
              DOMAIN MergedSelf.debug_lines \cup DOMAIN MergedOther.debug_lines
        /\ DOMAIN binder.static_values =
              DOMAIN MergedSelf.static_values \cup DOMAIN MergedOther.static_values
        /\ \A k \in DOMAIN binder.static_values :
              binder.static_values[k] =
                  IF k \in DOMAIN MergedOther.static_values
                  THEN MergedOther.static_values[k] ELSE MergedSelf.static_values[k]

\* a.merge(b).build() has succeeded where a supplies an instance and b a
\* component that depends on it
C7_Witness ==
    /\ pc = "done"
    /\ merged # None
    /\ \E i \in 1..merged[1] : \E j \in (merged[1] + 1)..Len(calls) :
          /\ calls[i].op = "instance"
          /\ calls[j].op = "inject"
          /\ calls[i].k \in Range(calls[j].deps)

HasMissingGiven(b, known) ==
    \E i \in DOMAIN b.requirements_graph :
        Range(b.requirements_graph[i].deps) \ (known \cup RegKeys(b)) # {}

\* what validation returns when it stops at the first pass, in the order
\* duplicates, nested-lazy, missing-dependencies, cycle, whose rule is broken:
\* that pass's own error
EarliestFailure(b, known) ==
    IF HasDuplicate(b, known) THEN verify_duplicates(b, known)
    ELSE IF HasNestedLazy(b) THEN verify_nested_lazy_deps(b)
    ELSE IF HasMissingGiven(b, known) THEN verify_missing_deps(b, known)
    ELSE verify_recursive_deps(b, known)

PassKinds == <<"Duplicates", "NestedLazy", "MissingDependencies", "DependencyCycle">>

\* r is the error of the pass in place i of the order, or Ok when i = 5
IsOfPass(r, i) == IF i = 5 THEN r = Ok ELSE r.kind = PassKinds[i]

\* the place in the order of the first pass whose rule b breaks (5: none)
EarliestPass(b, known) ==
    IF HasDuplicate(b, known) THEN 1
    ELSE IF HasNestedLazy(b) THEN 2
    ELSE IF HasMissingGiven(b, known) THEN 3
    ELSE IF verify_recursive_deps(b, known) # Ok THEN 4
    ELSE 5

\* C9: verify() and build() return the error of the earliest failing pass in
\* the order duplicates, nested-lazy, missing-dependencies, cycle, exactly as
\* that pass alone reports it; build() gets past validation only when no pass
\* fails.
C9_EarliestFailingPass ==
    /\ verified # None =>
          LET known == verified[1].extra \cup DOMAIN binder.static_values
          IN /\ verified[1].res = EarliestFailure(binder, known)
             /\ IsOfPass(verified[1].res, EarliestPass(binder, known))
    /\ pc # "binding" =>
          LET known == DOMAIN binder.static_values
              r == IF pc = "failed" THEN BuildResult ELSE Ok
          IN (pc = "failed" \/ EarliestPass(binder, known) # 5) =>
                /\ r = EarliestFailure(binder, known)
                /\ IsOfPass(r, EarliestPass(binder, known))

\* build() has failed on a binder that breaks the rules of the first three
\* passes at once
C9_Witness ==
    /\ pc = "failed"
    /\ HasDuplicate(binder, DOMAIN binder.static_values)
    /\ HasNestedLazy(binder)
    /\ HasMissing(binder)
    /\ BuildResult.kind = "Duplicates"

\* the four passes, each on its own, accept the binder build() was called on
AllPassesSucceed(b) ==
    LET known == DOMAIN b.static_values
    IN /\ verify_duplicates(b, known) = Ok
       /\ verify_nested_lazy_deps(b) = Ok
       /\ verify_missing_deps(b, known) = Ok
       /\ verify_recursive_deps(b, known) = Ok

\* C10: build() invokes a builder or creates the registry only after all four
\* validation passes have succeeded; when validation fails, build() has
\* invoked no builder.
C10_NothingBuiltBeforeValidation ==
    /\ (invoked # << >> \/ injector # None) => AllPassesSucceed(binder)
    /\ (pc # "binding" /\ ~AllPassesSucceed(binder)) =>
          /\ pc = "failed"
          /\ invoked = << >>
          /\ injector = None

\* build() has failed validation on a binder that has builders to invoke
C10_Witness ==
    /\ pc = "failed"
    /\ ~AllPassesSucceed(binder)
    /\ binder.builders # << >>
    /\ invoked = << >>
    /\ injector = None

\* how many times build() has called the builder of key k
Invocations(k) == Cardinality({i \in DOMAIN invoked : invoked[i] = k})

\* the keys that have a builder
HasBuilder(b) == {b.builders[i].type_id : i \in DOMAIN b.builders}

\* C11: build() never invokes the builder of a key more than once, and a
\* successful build() has invoked the builder of every key that has one
\* exactly once, lazy or not.
C11_BuilderInvokedOnce ==
    /\ \A k \in Keys : Invocations(k) <= 1
    /\ pc = "done" => \A k \in HasBuilder(binder) : Invocations(k) = 1

\* a successful build() has invoked the builders of a lazy and of a non-lazy
\* component that depend on each other
C11_Witness ==
    /\ pc = "done"
    /\ \E k \in HasBuilder(binder) \cap binder.lazy_types :
       \E j \in HasBuilder(binder) \ binder.lazy_types :
          /\ Invocations(k) = 1
          /\ Invocations(j) = 1
          /\ k \in DepsOf(binder, {j})
          /\ j \in DepsOf(binder, {k})

\* the key a registration call registers
CallKey(c) == IF c.op = "inject_lazy" THEN Lazy(c.t) ELSE c.k

\* the keys registered on the binder by the calls made
CalledKeys == {CallKey(calls[i]) : i \in DOMAIN calls}

\* C12: after a successful build() the registry has an entry for every key
\* registered on the binder, and get of each of them succeeds.
C12_RegistryComplete ==
    pc = "done" =>
        /\ CalledKeys \subseteq DOMAIN injector[1]
        /\ \A k \in CalledKeys : Get(injector[1], k).kind = "Ok"
        /\ (got # None /\ got[1].op = "get" /\ got[1].key \in CalledKeys) =>
              got[1].res.kind = "Ok"

\* get of a built component has returned from a registry that holds an
\* instance, a built component and a lazy value
C12_Witness ==
    /\ pc = "done"
    /\ got # None
    /\ got[1].op = "get"
    /\ got[1].res.kind = "Ok"
    /\ got[1].res.value.tag = "built"
    /\ \E i, j, l \in DOMAIN calls :
          /\ calls[i].op = "instance"
          /\ calls[j].op = "inject"
          /\ calls[l].op = "inject_lazy"

\* C13: a verify() call invokes no builder, creates no registry and leaves the
\* binder (static values, builders, dependency lists, names, debug sites, lazy
\* marks) as it was, whatever it returns; a build() that follows validates
\* and starts as build() of a binder made by the same registration calls does.
C13_VerifyConstructsNothing ==
    [][/\ (verified' # None /\ verified' # verified) =>
             /\ binder' = binder
             /\ invoked' = invoked
             /\ injector' = injector
             /\ pc' = pc
             /\ result' = result
       /\ (verified # None /\ pc = "binding" /\ pc' # "binding") =>
             LET fresh == Replay(InjectionBinder_new, calls)
                 v == verify(fresh, DOMAIN fresh.static_values)
             IN /\ invoked' = << >>
                /\ IF v = Ok
                   THEN pc' = "lazy" /\ injector' = Some(fresh.static_values)
                   ELSE pc' = "failed" /\ result' = Some(v) /\ injector' = None]_vars

\* verify() has accepted a binder that holds an instance, a builder and a
\* lazy mark
C13_Witness ==
    /\ verified # None
    /\ verified[1].res = Ok
    /\ binder.static_values # EmptyMap
    /\ binder.builders # << >>
    /\ binder.lazy_types # {}
    /\ invoked = << >>
    /\ injector = None

\* the instance() calls made for key k, by position
InstanceCalls(k) == {i \in DOMAIN calls : calls[i].op = "instance" /\ calls[i].k = k}

\* the keys supplied more than once through instance()
SuppliedAgain == {k \in Base : Cardinality(InstanceCalls(k)) >= 2}

\* the value given by the last instance() call for key k
LastInstance(k) ==
    InstVal(calls[CHOOSE i \in InstanceCalls(k) : \A j \in InstanceCalls(k) : j <= i].x)

\* the registry holds for k the value of the last instance() call, and get
\* returns it
GetsLastInstance(k) ==
    /\ Get(injector[1], k) = OkVal(LastInstance(k))
    /\ (got # None /\ got[1].op = "get" /\ got[1].key = k) =>
          got[1].res = OkVal(LastInstance(k))

\* C14 (as claimed): a type supplied more than once through instance() is
\* never reported as a duplicate: build() succeeds and get returns the value
\* of the last instance() call; a key registered twice with non-empty
\* dependency lists makes build() fail with the duplicates error.
C14_RepeatedInstanceBuilds ==
    /\ \A k \in SuppliedAgain :
          BuildEnded \/ pc = "panicked" =>
              /\ pc # "failed"
              /\ GetsLastInstance(k)
    /\ (TwiceRegistered(binder) # {} /\ BuildEnded) =>
          pc = "failed" /\ BuildResult.kind = "Duplicates"

\* C14 (amended): a type supplied more than once through instance(), and
\* through instance() only, is never named by the duplicates error, and when
\* build() succeeds get returns the value of the last instance() call; a
\* binder made by instance() calls alone builds; a key registered twice with
\* non-empty dependency lists makes build() fail with the duplicates error.
C14_RepeatedInstanceOnly ==
    /\ \A k \in SuppliedAgain \ HasBuilder(binder) :
          /\ (pc = "failed" /\ BuildResult.kind = "Duplicates") =>
                TypeName(k) \notin BuildResult.names
          /\ (verified # None /\ verified[1].res.kind = "Duplicates") =>
                TypeName(k) \notin verified[1].res.names
          /\ pc \in {"done", "panicked"} => GetsLastInstance(k)
          /\ (BuildEnded /\ \A i \in DOMAIN calls : calls[i].op = "instance") =>
                pc = "done"
    /\ (TwiceRegistered(binder) # {} /\ BuildEnded) =>
          pc = "failed" /\ BuildResult.kind = "Duplicates"

\* get has returned the second of two different values supplied for one type
\* through instance(), from a registry that also holds a built component
C14_Witness ==
    /\ pc = "done"
    /\ got # None
    /\ got[1].op = "get"
    /\ got[1].key \in SuppliedAgain \ HasBuilder(binder)
    /\ \E i, j \in InstanceCalls(got[1].key) : i < j /\ calls[i].x # calls[j].x
    /\ got[1].res = OkVal(LastInstance(got[1].key))
    /\ invoked # << >>

\* C15: gets may overlap each other, but no thread holds the write guard
\* while another holds any guard, and no get returns an entry whose write was
\* under way.
C15_InsertExcludesGet ==
    /\ Cardinality(lock.writer) <= 1
    /\ lock.writer # {} => lock.readers = {}
    /\ \A t \in Threads :
          /\ thread[t].pc = "get" => t \in lock.readers
          /\ thread[t].pc \in {"storing", "stored"} => lock.writer = {t}
          /\ (thread[t].pc = "idle" /\ thread[t].res # None) =>
                thread[t].res[1].res # OkVal(Torn)

\* two gets overlap while a called insert waits for them, after earlier
\* inserts have filled the map
C15_Witness ==
    /\ Cardinality(lock.readers) = 2
    /\ \E t \in Threads : thread[t].pc = "insert"
    /\ DOMAIN injector[1] = SharedKeys

\* what the last force by thread t returned, if its last call was a force
ForceResult(t) ==
    IF thread[t].pc = "idle" /\ thread[t].res # None /\ thread[t].res[1].op = "force"
    THEN thread[t].res ELSE None

\* every force that returned gave what the registry holds for the lazy
\* value's target, the read guard is free for a thunk to take, and a thread
\* waits for a cell only while another thread is running its thunk
ForcesFindTarget ==
    \A t \in Threads :
        /\ ForceResult(t) # None =>
              ForceResult(t)[1].res = OkVal(injector[1][LazyTarget(ForceResult(t)[1].key)])
        /\ thread[t].pc = "thunk" => lock.writer = {}
        /\ thread[t].pc = "force_wait" =>
              \/ thread[t].key \in DOMAIN forced
              \/ Running(thread[t].key) # {}

\* C16: after a successful build(), under every interleaving of gets and
\* forces by the threads, the registry stays as build() left it, a force
\* returns what the registry holds for the lazy value's target, the thunk
\* never reaches unreachable!(), and a force is never held up.
C16_ForceFindsTarget ==
    [][/\ pc' # "panicked"
       /\ pc = "done" => injector' = injector
       /\ ForcesFindTarget']_vars

\* two threads have forced the lazy value of a cycle (A holds Lazy<A>) and
\* got the same value, while a third thread is in a get
C16_Witness ==
    /\ pc = "done"
    /\ \E t1, t2, t3 \in Threads :
          /\ t1 # t2
          /\ ForceResult(t1) # None
          /\ ForceResult(t2) # None
          /\ ForceResult(t1) = ForceResult(t2)
          /\ ForceResult(t1)[1].key \in OnCycle(AllDeps(binder))
          /\ thread[t3].pc = "get"

\* the lazy-marked registrations whose declared target nothing registers
LazyMissingAt(b) ==
    {i \in DOMAIN b.requirements_graph :
        /\ b.requirements_graph[i].type_id \in b.lazy_types
        /\ MissingOf(b, i) # {}}

\* r is the missing-dependencies error and names, for every lazy-marked
\* registration with an unregistered target, the registration and the target
NamesLazyTargets(r, b) ==
    /\ r.kind = "MissingDependencies"
    /\ \A i \in LazyMissingAt(b) : \A m \in MissingOf(b, i) :
          \E e \in Range(r.per_component) :
              /\ e.name = TypeName(b.requirements_graph[i].type_id)
              /\ TypeName(m) \in Range(e.missing)

\* C17 (as claimed): a lazy-marked registration whose declared target type is
\* not registered makes build() fail with the missing-dependencies error
\* naming that target.
C17_LazyTargetAlwaysReported ==
    (BuildEnded /\ LazyMissingAt(binder) # {}) =>
        pc = "failed" /\ NamesLazyTargets(BuildResult, binder)

\* C17 (amended): the same, for binders to which neither the duplicates pass
\* nor the nested-lazy pass, which run before the missing-dependencies pass,
\* objects; the lazy-first rule of the resolution exempts nothing.
C17_LazyTargetReportedAfterEarlierPasses ==
    (/\ BuildEnded
     /\ LazyMissingAt(binder) # {}
     /\ ~HasDuplicate(binder, DOMAIN binder.static_values)
     /\ ~HasNestedLazy(binder)) =>
        pc = "failed" /\ NamesLazyTargets(BuildResult, binder)

\* build() has reported the unregistered target of Lazy<T> although a
\* registered component depends on Lazy<T> and misses nothing itself
C17_Witness ==
    /\ pc = "failed"
    /\ BuildResult.kind = "MissingDependencies"
    /\ \E i \in LazyMissingAt(binder) : \E j \in DOMAIN binder.requirements_graph :
          /\ binder.requirements_graph[i].type_id \in Range(binder.requirements_graph[j].deps)
          /\ MissingOf(binder, j) = {}
          /\ TypeName(binder.requirements_graph[i].deps[1]) \in
                UNION {Range(e.missing) : e \in Range(BuildResult.per_component)}

AutoOps == {"auto", "auto_box", "auto_arc"}

\* the type the most recent inject, inject_fn or inject::<Lazy<T>> before
\* call i of cs has produced; () when there is none
Original(cs, i) ==
    LET P == {j \in DOMAIN cs : j < i /\ cs[j].op \in {"inject", "inject_fn", "inject_lazy"}}
    IN IF P = {} THEN Unit
       ELSE LET j == CHOOSE j \in P : \A l \in P : l <= j
            IN IF cs[j].op = "inject_lazy" THEN Lazy(cs[j].t) ELSE cs[j].k

\* what the auto call i of cs applies, and the type it registers
Applied(cs, i) ==
    CASE cs[i].op = "auto" -> "f"
      [] cs[i].op = "auto_box" -> "Box::new"
      [] cs[i].op = "auto_arc" -> "Arc::new"

AutoKey(cs, i) ==
    CASE cs[i].op = "auto" -> cs[i].k
      [] cs[i].op = "auto_box" -> Box(Original(cs, i))
      [] cs[i].op = "auto_arc" -> Arc(Original(cs, i))

\* the builder that call i of cs has pushed: instance() pushes none
BuilderIndex(cs, i) == Cardinality({j \in 1..i : cs[j].op # "instance"})

\* every auto call has registered one component, whose only declared
\* dependency is the type produced before the chain of auto calls
AutoRegistersOne ==
    /\ Len(binder.requirements_graph) = Len(calls)
    /\ Len(binder.builders) = BuilderIndex(calls, Len(calls))
    /\ \A i \in DOMAIN calls : calls[i].op \in AutoOps =>
          /\ binder.requirements_graph[i] = Req(AutoKey(calls, i), << Original(calls, i) >>)
          /\ binder.builders[BuilderIndex(calls, i)] =
                [type_id |-> AutoKey(calls, i),
                 f |-> Builder(Applied(calls, i), << Original(calls, i) >>)]

\* the auto calls have left the binder's last produced type as it was
AutoKeepsLastType == LastType(calls) = Original(calls, Len(calls) + 1)

\* the registry holds, for the auto call i, what the call applies to v
HoldsApplied(i, v) ==
    /\ AutoKey(calls, i) \in DOMAIN injector[1]
    /\ injector[1][AutoKey(calls, i)] =
          BuiltVal(Applied(calls, i), AutoKey(calls, i), << v >>)

\* C18 (as claimed): auto(f), auto_box() and auto_arc() each register one new
\* component whose only declared dependency is the previously produced type
\* and whose value is f (or Box::new / Arc::new) applied to that type's built
\* value, and they leave the last produced type unchanged, so that chained
\* auto calls all derive from the same original component.
C18_AutoDerivesFromLastType ==
    /\ AutoRegistersOne
    /\ AutoKeepsLastType
    /\ pc = "done" =>
          \A i \in DOMAIN calls : calls[i].op \in AutoOps =>
              /\ Original(calls, i) \in DOMAIN injector[1]
              /\ HoldsApplied(i, injector[1][Original(calls, i)])

\* the members of a tuple type that the registry has no entry for
Absent(tuple) == {i \in DOMAIN tuple : tuple[i] \notin DOMAIN injector[1]}
FirstAbsent(tuple) == CHOOSE i \in Absent(tuple) : \A j \in Absent(tuple) : i <= j

\* what get_tuple is to return for a tuple type, given the registry
TupleAnswer(tuple) ==
    IF Absent(tuple) = {}
    THEN OkVal([i \in DOMAIN tuple |-> injector[1][tuple[i]]])
    ELSE MissingValue(tuple[FirstAbsent(tuple)])

\* C19: get_tuple succeeds exactly when every member type of the tuple is in
\* the registry, returning the members in tuple order; otherwise it fails
\* with the missing-value error of the first member, in tuple order, that is
\* absent; and it leaves the registry unchanged.
C19_GetTupleFirstAbsent ==
    [][(/\ got' # got
        /\ got' # None
        /\ got'[1].op = "get_tuple") =>
           /\ got'[1].res = TupleAnswer(got'[1].key)
           /\ (got'[1].res.kind = "Ok") <=> (Range(got'[1].key) \subseteq DOMAIN injector[1])
           /\ injector' = injector
           /\ pc' = "done"]_vars

\* get_tuple of a pair of two different types, both absent from a non-empty
\* registry, has failed with the missing-value error of the first
C19_Witness ==
    /\ pc = "done"
    /\ got # None
    /\ got[1].op = "get_tuple"
    /\ Len(got[1].key) = 2
    /\ got[1].key[1] # got[1].key[2]
    /\ DOMAIN injector[1] # {}
    /\ Absent(got[1].key) = {1, 2}
    /\ got[1].res = MissingValue(got[1].key[1])

\* this step of build() calls the builder of the non-lazy key k
InvokesNonLazy(k) ==
    /\ invoked' = Append(invoked, k)
    /\ k \notin binder.lazy_types

\* C20: when build() invokes the builder of a non-lazy registration, every
\* key of the registration's declared dependency list has an entry in the
\* registry already, so the builder gets no missing-value error; and no
\* build() ends with a missing-value error.
C20_DependenciesPresentAtInvocation ==
    [][/\ \A k \in DOMAIN BuildersMap(binder) : InvokesNonLazy(k) =>
             /\ \E i \in DOMAIN binder.requirements_graph :
                   binder.requirements_graph[i] = Req(k, BuildersMap(binder)[k].deps)
             /\ Range(BuildersMap(binder)[k].deps) \subseteq DOMAIN injector[1]
             /\ CallBuilder(BuildersMap(binder)[k], k, injector[1]).kind = "Ok"
             /\ k \in DOMAIN injector'[1]
       /\ result' # None => result'[1].kind # "MissingValue"]_vars

\* build() has invoked, in its second round, the builder of a component that
\* depends on a lazy thunk and on a value built in the first round
C20_Witness ==
    /\ pc = "done"
    /\ \E k \in DOMAIN BuildersMap(binder) \ binder.lazy_types :
       \E d, l \in Range(BuildersMap(binder)[k].deps) :
          /\ Invocations(k) = 1
          /\ l \in binder.lazy_types
          /\ d \in DOMAIN BuildersMap(binder) \ binder.lazy_types
          /\ \E i, j \in DOMAIN invoked : i < j /\ invoked[i] = d /\ invoked[j] = k
          /\ injector[1][k].args = << injector[1][d], injector[1][l] >>

\* the rounds of the real build have begun: a non-lazy registration may have
\* been resolved
RoundsBegun == pc \in {"round", "resolving", "done"}

\* every lazy-marked registration is available, its builder has been invoked
\* and its thunk is in the registry
LazyAllResolved ==
    \A k \in ResolvedLazyTypes(binder) :
        /\ k \in available_types
        /\ Invocations(k) = 1
        /\ k \in DOMAIN injector[1]
        /\ injector[1][k] = ThunkVal(LazyTarget(k))

\* the names of the lazy-marked registrations
LazyNames(b) == NamesOfSet(b, ResolvedLazyTypes(b))

\* C21: in the real build every lazy-marked registration is made available
\* and resolved (builder invoked, thunk inserted) before the first non-lazy
\* registration is resolved, whatever the registration order and whether or
\* not its target is available yet; the dry run starts from the lazy-marked
\* keys as well, so its error never names one of them.
C21_LazyResolvedFirst ==
    /\ RoundsBegun => LazyAllResolved
    /\ \A i, j \in DOMAIN invoked :
          (invoked[i] \in binder.lazy_types /\ invoked[j] \notin binder.lazy_types) => i < j
    /\ (verified # None /\ verified[1].res.kind = "DependencyCycle") =>
          verified[1].res.names \cap LazyNames(binder) = {}
    /\ (pc = "failed" /\ BuildResult.kind = "DependencyCycle") =>
          BuildResult.names \cap LazyNames(binder) = {}

\* build() has invoked the builder of Lazy<T>, registered last, before the
\* builder of T, which itself depends on Lazy<T>
C21_Witness ==
    /\ pc = "done"
    /\ \E i, j \in DOMAIN invoked :
          /\ i < j
          /\ invoked[i] \in binder.lazy_types
          /\ invoked[j] = LazyTarget(invoked[i])
          /\ invoked[i] \in DepsOf(binder, {invoked[j]})
          /\ binder.requirements_graph[Len(binder.requirements_graph)].type_id = invoked[i]

\* the greatest member of a non-empty set of numbers
Max(S) == CHOOSE x \in S : \A y \in S : y <= x

\* the round a dependency counts for: none (0) for a static value, a lazy
\* key and a key nothing registers, else the round it was resolved in; a
\* dependency that is none of these and not resolved yet counts for the
\* round under way
DepRound(d) ==
    IF d \in DOMAIN binder.static_values \cup binder.lazy_types \/ d \notin RegKeys(binder)
    THEN 0
    ELSE IF d \in DOMAIN rounds.of THEN rounds.of[d] ELSE rounds.n

\* the round in which the key k is to be resolved, given its dependencies
DueRound(k) == 1 + Max({0} \cup {DepRound(d) : d \in Range(LeftDeps(binder)[k])})

\* every key resolved so far was resolved in the round that is due
ResolvedInDueRound == \A k \in DOMAIN rounds.of : rounds.of[k] = DueRound(k)

\* C22: the keys a round resolves are those eligible when the round starts
\* (none is added while the round runs), so every non-lazy registration is
\* resolved in the round numbered one more than the latest round of its
\* dependencies, and in round 1 if they are all static, lazy or absent.
C22_ResolvedOneRoundAfterDependencies ==
    [][/\ ResolvedInDueRound'
       /\ (pc = "resolving" /\ pc' = "resolving") =>
             /\ resolved' \subseteq resolved
             /\ rounds'.n = rounds.n]_vars

\* build() has resolved a chain of three components in three rounds
C22_Witness ==
    /\ pc = "done"
    /\ \E k \in DOMAIN rounds.of : \E d \in Range(LeftDeps(binder)[k]) :
          /\ rounds.of[k] = 3
          /\ d \in DOMAIN rounds.of
          /\ rounds.of[d] = 2

\* the keys that, among the registrations with dependencies, occur twice, or
\* occur once and are known already
DuplicateKeys(b, known) ==
    {b.requirements_graph[i].type_id : i \in
        {i \in NonTrivial(b) :
            \/ b.requirements_graph[i].type_id \in known
            \/ \E j \in NonTrivial(b) :
                  j # i /\ b.requirements_graph[j].type_id = b.requirements_graph[i].type_id}}

\* r is what the duplicates pass makes of these keys: the error naming
\* exactly them, or no duplicates error at all
ReportsExactly(r, S) ==
    IF S = {} THEN r.kind # "Duplicates"
    ELSE r = DuplicationsFound({TypeName(k) : k \in S})

\* C23: the duplicates pass of build() and of verify() reports exactly the
\* keys that, among the registrations with a non-empty dependency list, occur
\* at least twice or occur while being known already (a static value, or an
\* extra key handed to verify()); registrations with an empty dependency list
\* neither enter nor trigger the report.
C23_DuplicatesExactly ==
    /\ BuildEnded =>
          ReportsExactly(BuildResult, DuplicateKeys(binder, DOMAIN binder.static_values))
    /\ verified # None =>
          ReportsExactly(verified[1].res,
                         DuplicateKeys(binder, verified[1].extra \cup DOMAIN binder.static_values))

\* verify() with an extra known key has reported that key, registered once
\* with dependencies, and not the key that instance() has supplied twice
C23_Witness ==
    /\ verified # None
    /\ verified[1].extra # {}
    /\ verified[1].res.kind = "Duplicates"
    /\ verified[1].extra \cap DOMAIN binder.static_values = {}
    /\ \E i \in NonTrivial(binder) :
          verified[1].res.names = {TypeName(binder.requirements_graph[i].type_id)}
    /\ \E i, j \in DOMAIN binder.requirements_graph :
          /\ i # j
          /\ binder.requirements_graph[i] = binder.requirements_graph[j]
          /\ binder.requirements_graph[i].deps = << >>
          /\ TypeName(binder.requirements_graph[i].type_id) \notin verified[1].res.names

\* the declared dependencies of registration i outside the known and the
\* registered keys, and the registrations that have any
MissingGiven(b, i, known) == Range(b.requirements_graph[i].deps) \ (known \cup RegKeys(b))
MissingAt(b, known) == {i \in DOMAIN b.requirements_graph : MissingGiven(b, i, known) # {}}

\* r is what the missing-dependencies pass makes of b: one error with one
\* entry for each registration of MissingAt, listing all its missing
\* dependencies and nothing else; or no missing-dependencies error at all
ReportsMissingExactly(r, b, known) ==
    IF MissingAt(b, known) = {} THEN r.kind # "MissingDependencies"
    ELSE /\ r.kind = "MissingDependencies"
         /\ Len(r.per_component) = Cardinality(MissingAt(b, known))
         /\ \A i \in MissingAt(b, known) : \E e \in Range(r.per_component) :
               /\ e.name = TypeName(b.requirements_graph[i].type_id)
               /\ Range(e.missing) = {TypeName(m) : m \in MissingGiven(b, i, known)}
               /\ Len(e.missing) = Cardinality(MissingGiven(b, i, known))

\* the two passes that run before the missing-dependencies pass succeed
ReachesMissingPass(b, known) == ~HasDuplicate(b, known) /\ ~HasNestedLazy(b)

\* C24: the missing-dependencies pass, when build() or verify() gets to it,
\* reports in one error every registration with a declared dependency outside
\* the known and the registered keys, each with the full list of its missing
\* dependencies, and no registration whose direct dependencies are all known,
\* even one that depends on a reported registration.
C24_MissingExactly ==
    /\ (BuildEnded /\ ReachesMissingPass(binder, DOMAIN binder.static_values)) =>
          ReportsMissingExactly(BuildResult, binder, DOMAIN binder.static_values)
    /\ (/\ verified # None
        /\ ReachesMissingPass(binder, verified[1].extra \cup DOMAIN binder.static_values)) =>
          ReportsMissingExactly(verified[1].res, binder,
                                verified[1].extra \cup DOMAIN binder.static_values)

\* build() has reported a component with its two missing dependencies, and
\* not the component that depends on it and misses nothing itself
C24_Witness ==
    /\ pc = "failed"
    /\ BuildResult.kind = "MissingDependencies"
    /\ \E e \in Range(BuildResult.per_component) : Len(e.missing) = 2
    /\ \E i \in MissingAt(binder, DOMAIN binder.static_values) :
       \E j \in DOMAIN binder.requirements_graph :
          /\ binder.requirements_graph[i].type_id \in Range(binder.requirements_graph[j].deps)
          /\ MissingGiven(binder, j, DOMAIN binder.static_values) = {}
          /\ \A e \in Range(BuildResult.per_component) :
                e.name # TypeName(binder.requirements_graph[j].type_id)

\* what keeps a key from being resolved when `known` is available from the
\* start: the dependencies of its last registration that are neither lazy-
\* marked nor known
Blocking(b, known) ==
    [k \in Keys |-> LastNonLazyDeps(b)[k] \ known]

\* the keys that depend, directly or transitively, on a key on a cycle of G
DependOnCycle(G) == {k \in DOMAIN G : Descendants(G, k) \cap OnCycle(G) # {}}

\* r is a stall of the resolution algorithm
IsStall(r) == r.kind \in {"DependencyCycle", "CantResolve"}

\* C25 (as claimed): when the resolution algorithm stalls, the names in the
\* error are exactly those of the non-lazy registrations on a dependency
\* cycle; a registration that only depends on a cycle member is not named.
C25_StallNamesCycleOnly ==
    /\ (pc = "failed" /\ IsStall(BuildResult)) =>
          BuildResult.names =
             {TypeName(k) : k \in OnCycle(Blocking(binder, DOMAIN binder.static_values))}
    /\ (verified # None /\ IsStall(verified[1].res)) =>
          verified[1].res.names =
             {TypeName(k) : k \in OnCycle(Blocking(binder,
                                 verified[1].extra \cup DOMAIN binder.static_values))}

\* the keys a stall leaves: on a cycle, or depending on a cycle member
Stuck(G) == OnCycle(G) \cup DependOnCycle(G)

\* C25 (amended): when the resolution algorithm stalls, the names in the
\* error are exactly those of the non-lazy registrations that lie on a
\* dependency cycle or depend, directly or transitively, on a cycle member.
C25_StallNamesCycleAndDependents ==
    /\ (pc = "failed" /\ IsStall(BuildResult)) =>
          BuildResult.names =
             {TypeName(k) : k \in Stuck(Blocking(binder, DOMAIN binder.static_values))}
    /\ (verified # None /\ IsStall(verified[1].res)) =>
          verified[1].res.names =
             {TypeName(k) : k \in Stuck(Blocking(binder,
                                 verified[1].extra \cup DOMAIN binder.static_values))}

\* build() has stalled on a cycle of two keys and has named a third key,
\* which depends on one of them and is on no cycle
C25_Witness ==
    /\ pc = "failed"
    /\ IsStall(BuildResult)
    /\ Cardinality(OnCycle(Blocking(binder, DOMAIN binder.static_values))) = 2
    /\ \E k \in DependOnCycle(Blocking(binder, DOMAIN binder.static_values)) :
          /\ k \notin OnCycle(Blocking(binder, DOMAIN binder.static_values))
          /\ TypeName(k) \in BuildResult.names

\* the distinct non-lazy keys of the binder
NonLazyKeys(b) == DOMAIN LeftDeps(b)

\* build() is in its traversal; the traversal has returned
Traversing == pc \in {"lazy", "round", "resolving"}

\* the loop has ended with every registration resolved
EndedResolved ==
    /\ pc = "done"
    /\ left_deps = EmptyMap
    /\ DOMAIN rounds.of = NonLazyKeys(binder)

\* the loop has ended with a stall: its last round resolved nothing
EndedStalled ==
    /\ pc = "failed"
    /\ BuildResult.kind = "CantResolve"
    /\ Cardinality(DOMAIN left_deps) = current_len
    /\ \A k \in DOMAIN rounds.of : rounds.of[k] < rounds.n

\* the loop has ended with the error of the builder it has just called
EndedByBuilder ==
    /\ pc = "failed"
    /\ BuildResult.kind = "UserError"

\* the loop never runs more than n + 1 rounds for n distinct non-lazy keys
RoundsBounded == rounds.n <= Cardinality(NonLazyKeys(binder)) + 1

\* C26 (as claimed): the resolution loop terminates after at most n + 1
\* rounds for a binder with n distinct non-lazy keys, and it ends either with
\* every registration resolved or with a stall in which a round resolved
\* nothing, never in a third way.
C26_LoopEndsResolvedOrStalled ==
    /\ [](RoundsBounded /\ ((BuildEnded /\ rounds.n > 0) => (EndedResolved \/ EndedStalled)))
    /\ (Traversing ~> BuildEnded)

\* C26 (amended): the same, with the third way the real build has: the loop
\* ends with the error of a builder as soon as a builder returns one.
C26_LoopEndsResolvedStalledOrFailed ==
    /\ [](RoundsBounded /\
          ((BuildEnded /\ rounds.n > 0) => (EndedResolved \/ EndedStalled \/ EndedByBuilder)))
    /\ (Traversing ~> BuildEnded)

\* build() has resolved three keys in three rounds
C26_Witness ==
    /\ EndedResolved
    /\ Cardinality(NonLazyKeys(binder)) = 3
    /\ rounds.n = 3

\* this step of build() calls the builder of key k, and the builder returns
\* an error
BuilderFails(k) ==
    /\ invoked' = Append(invoked, k)
    /\ CallBuilder(BuildersMap(binder)[k], k, injector[1]).kind # "Ok"

\* C27: when a builder returns an error during build(), build() returns that
\* error at once: the failing key is not inserted, no registry is returned,
\* and no builder is invoked afterwards.
C27_BuilderErrorReturnedAtOnce ==
    [][/\ \A k \in DOMAIN BuildersMap(binder) : BuilderFails(k) =>
             /\ pc' = "failed"
             /\ result' = Some(CallBuilder(BuildersMap(binder)[k], k, injector[1]))
             /\ injector' = injector
       /\ pc = "failed" => (invoked' = invoked /\ injector' = injector /\ result' = result)
       /\ (pc' = "done" /\ result'[1].kind = "Ok") =>
             \A i \in DOMAIN invoked' : invoked'[i] \in DOMAIN injector'[1]]_vars

\* build() has returned the error of the second builder it called; the
\* failing key is not in the registry and a third builder was never called
C27_Witness ==
    /\ pc = "failed"
    /\ BuildResult.kind = "UserError"
    /\ Len(invoked) = 2
    /\ BuildResult = UserError(invoked[2])
    /\ invoked[1] \in DOMAIN injector[1]
    /\ invoked[2] \notin DOMAIN injector[1]
    /\ HasBuilder(binder) \ Range(invoked) # {}

\* C28: the outcome of build() does not depend on the order in which the
\* registrations of a round, or the lazy registrations of the initial stage,
\* are processed: every run of build() on the binder ends with the registry
\* contents this run has ended with, or with the error this run has reported.
C28_OutcomeIndependentOfOrder ==
    /\ pc = "done" => BuildRuns(binder) = {OkVal(injector[1])}
    /\ pc = "failed" => BuildRuns(binder) = {BuildResult}

\* the results of forcing lazy_type that the threads hold
ForceResults(lazy_type) ==
    {thread[t].res[1].res : t \in {u \in Threads :
        /\ thread[u].pc = "idle"
        /\ thread[u].res # None
        /\ thread[u].res[1].op = "force"
        /\ thread[u].res[1].key = lazy_type}}

\* at most one thread runs the thunk of a lazy value, none once its cell is
\* filled, and every force has returned the value stored in the cell
OneThunkRun ==
    \A lazy_type \in LazyKeys :
        /\ Cardinality(Running(lazy_type)) <= 1
        /\ lazy_type \in DOMAIN forced => Running(lazy_type) = {}
        /\ ForceResults(lazy_type) # {} =>
              /\ lazy_type \in DOMAIN forced
              /\ ForceResults(lazy_type) = {OkVal(forced[lazy_type])}

\* a step of thread t that starts the thunk of a lazy value
StartsThunk(t) == thread[t].pc = "idle" /\ thread'[t].pc = "thunk"

\* a step in which thread t's force returns without having run the thunk
ReturnsStored(t) ==
    /\ thread[t].pc \in {"idle", "force_wait"}
    /\ thread'[t].pc = "idle"
    /\ thread'[t].res # None
    /\ thread[t].pc = "idle" => thread'[t].res # thread[t].res
    /\ thread'[t].res[1].op = "force"

\* C29: a lazy value looks its target up in the registry at most once: the
\* thunk is started only while the cell is empty and no thread is running it,
\* its result is stored and the cell never changes afterwards, every other
\* force returns the stored value without taking the registry's lock, and the
\* threads that force one lazy value concurrently all obtain the value of
\* the single thunk run.
C29_ThunkRunsOnce ==
    [][/\ OneThunkRun'
       /\ \A k \in DOMAIN forced : k \in DOMAIN forced' /\ forced'[k] = forced[k]
       /\ \A t \in Threads :
             /\ StartsThunk(t) =>
                   /\ thread'[t].key \notin DOMAIN forced
                   /\ Running(thread'[t].key) = {}
             /\ ReturnsStored(t) =>
                   /\ thread'[t].res[1].key \in DOMAIN forced
                   /\ thread'[t].res[1].res = OkVal(forced[thread'[t].res[1].key])
                   /\ lock' = lock
                   /\ forced' = forced]_vars

\* one thread has run the thunk of a lazy value while two others waited for
\* it: one of the two has been woken with the stored value, as the thread that
\* ran the thunk, and the other is still waiting
C29_Witness ==
    \E lazy_type \in DOMAIN forced : \E t1, t2, t3 \in Threads :
        /\ t1 # t2 /\ t2 # t3 /\ t1 # t3
        /\ thread[t1] = Returned("force", lazy_type, OkVal(forced[lazy_type]))
        /\ thread[t2] = Returned("force", lazy_type, OkVal(forced[lazy_type]))
        /\ thread[t3] = [pc |-> "force_wait", key |-> lazy_type]

\* the step invokes the builder of k, which dereferences a lazy member of its
\* tuple whose target is not in the registry yet
ForcesEarly(k) ==
    /\ pc = "resolving"
    /\ invoked' = Append(invoked, k)
    /\ BuildersMap(binder)[k].kind = "fn_force"
    /\ \E d \in Range(BuildersMap(binder)[k].deps) :
          /\ d \in DOMAIN injector[1]
          /\ injector[1][d].tag = "thunk"
          /\ injector[1][d].target \notin DOMAIN injector[1]

\* C30: when a builder that build() runs forces a lazy value it received as
\* a dependency before the lazy's target has been inserted, the force fails
\* with an error value, which ends build(): there is no panic (and nothing
\* blocks: the step is taken).
C30_EarlyForceFailsWithError ==
    [][\A k \in DOMAIN BuildersMap(binder) : ForcesEarly(k) =>
          /\ pc' = "failed"
          /\ result' # None
          /\ result'[1].kind # "Ok"]_vars

\* a builder has forced its lazy dependency before the target was inserted,
\* and build() has panicked
C30_Panicked ==
    /\ pc = "panicked"
    /\ invoked # << >>
    /\ BuildersMap(binder)[invoked[Len(invoked)]].kind = "fn_force"

\* a builder has forced its lazy dependency after the target was built, and
\* build() has returned the registry
C30_ForcedLate ==
    /\ pc = "done"
    /\ \E i, j \in DOMAIN invoked :
          /\ i < j
          /\ BuildersMap(binder)[invoked[j]].kind = "fn_force"
          /\ Lazy(invoked[i]) \in DOMAIN forced
          /\ forced[Lazy(invoked[i])] = injector[1][invoked[i]]

\* every registration of b is lazy-marked (and there is one)
AllLazy(b) ==
    /\ b.requirements_graph # << >>
    /\ \A i \in DOMAIN b.requirements_graph :
          b.requirements_graph[i].type_id \in b.lazy_types

\* the targets of the lazy-marked registrations of b
LazyTargets(b) ==
    UNION {Range(b.requirements_graph[i].deps) :
              i \in {j \in DOMAIN b.requirements_graph :
                        b.requirements_graph[j].type_id \in b.lazy_types}}

\* a stall error of build() or verify() names a registration left unresolved
StallLeavesSome ==
    /\ (pc = "failed" /\ IsStall(BuildResult)) => BuildResult.names # {}
    /\ (verified # None /\ IsStall(verified[1].res)) => verified[1].res.names # {}

\* build() on a binder without registrations returns an empty registry
EmptyBuildSucceeds ==
    (BuildEnded /\ binder.requirements_graph = << >>) =>
        /\ pc = "done"
        /\ injector = Some(EmptyMap)

\* verify() accepts a binder of lazy-marked registrations only whose targets
\* are among the extra known keys
AllLazyVerifies ==
    (/\ verified # None
     /\ AllLazy(binder)
     /\ LazyTargets(binder) \subseteq verified[1].extra) =>
        verified[1].res = Ok

\* C31: a cycle/stall error is reported only when at least one registration
\* is left unresolved: build() on a binder with no registrations succeeds
\* with an empty registry, and verify() succeeds on a binder whose
\* registrations are all lazy-marked with their targets among the extra
\* known keys.
C31_StallOnlyWithUnresolved ==
    /\ StallLeavesSome
    /\ EmptyBuildSucceeds
    /\ AllLazyVerifies

\* the rounds in which the dry run of the cycle pass resolves the keys: the
\* traversal with an on_resolve that does nothing, numbering its rounds
RECURSIVE DryRounds(_, _, _, _, _)
DryRounds(available, left, len, n, acc) ==
    LET todo == Resolved(left, available)
        left2 == Restrict(left, (DOMAIN left) \ todo)
        acc2 == [k \in DOMAIN acc \cup todo |-> IF k \in todo THEN n ELSE acc[k]]
    IN IF Cardinality(DOMAIN left2) = len THEN acc2
       ELSE IF DOMAIN left2 = {} THEN acc2
       ELSE DryRounds(available \cup todo, left2, Cardinality(DOMAIN left2), n + 1, acc2)

\* the rounds of the dry run that verify() makes inside build()
DryRunRounds(b) ==
    DryRounds(DOMAIN b.static_values \cup ResolvedLazyTypes(b), LeftDeps(b),
              Cardinality(DOMAIN LeftDeps(b)), 1, EmptyMap)

\* C32: the real traversal of build() resolves the keys that the dry run of
\* the cycle pass resolved, each in the same round: once verify() has passed,
\* every key the real traversal has resolved was resolved in that round by
\* the dry run, a build that ends without a builder's error has resolved all
\* the keys of the dry run, and build() never ends with its own stall error
\* ("Can't resolve dependencies of types").
C32_RealTraversalFollowsDryRun ==
    /\ \A k \in DOMAIN rounds.of :
          /\ k \in DOMAIN DryRunRounds(binder)
          /\ rounds.of[k] = DryRunRounds(binder)[k]
    /\ pc = "done" => rounds.of = DryRunRounds(binder)
    /\ ~(pc = "failed" /\ BuildResult.kind = "CantResolve")

\* build() has resolved keys in two rounds, the later one depending on a
\* lazy value, as the dry run did
C32_Witness ==
    /\ pc = "done"
    /\ rounds.of = DryRunRounds(binder)
    /\ \E k \in DOMAIN rounds.of :
          /\ rounds.of[k] = 2
          /\ \E d \in Range(LeftDeps(binder)[k]) : d \in binder.lazy_types

\* what the last get or get_tuple returned is what the registry holds
GotIsStored ==
    (pc = "done" /\ got # None) =>
        /\ got[1].op = "get" => got[1].res = Get(injector[1], got[1].key)
        /\ got[1].op = "get_tuple" =>
              got[1].res = ReadFromInjector(injector[1], got[1].key, 1, << >>)

\* C33: once build() has returned, the contents of the registry are frozen:
\* no get, get_tuple or force adds, removes or overwrites an entry, so the
\* key set never shrinks, and what a get or get_tuple returned remains equal
\* to what the registry stores, so that a repeated get of the same type
\* returns an equal value.
C33_RegistryFrozenAfterBuild ==
    [][/\ pc = "done" => (pc' = "done" /\ injector' = injector)
       /\ GotIsStored'
       /\ (/\ got # None /\ got' # None
           /\ got[1].op = got'[1].op
           /\ got[1].op \in {"get", "get_tuple"}
           /\ got[1].key = got'[1].key) => got'[1].res = got[1].res]_vars

\* a lazy value of the built registry has been forced, and a get_tuple made
\* afterwards has returned that lazy value and its target
C33_Witness ==
    /\ pc = "done"
    /\ forced # EmptyMap
    /\ got # None
    /\ got[1].op = "get_tuple"
    /\ got[1].res.kind = "Ok"
    /\ \E lazy_type \in DOMAIN forced :
          got[1].key = << lazy_type, LazyTarget(lazy_type) >>

\* the keys supplied both by instance() and by a builder registration, all of
\* whose registrations have an empty dependency list
SuppliedBothWays ==
    {k \in Base :
        /\ InstanceCalls(k) # {}
        /\ k \in HasBuilder(binder)
        /\ \A i \in DOMAIN binder.requirements_graph :
              binder.requirements_graph[i].type_id = k =>
                  binder.requirements_graph[i].deps = << >>}

\* the call that supplied k last
LastCall(k) ==
    calls[CHOOSE i \in DOMAIN calls :
             /\ CallKey(calls[i]) = k
             /\ \A j \in DOMAIN calls : CallKey(calls[j]) = k => j <= i]

\* the value of the registration of k made last
LastSupplied(k) ==
    IF LastCall(k).op = "instance" THEN InstVal(LastCall(k).x)
    ELSE CallBuilder(BuildersMap(binder)[k], k, EmptyMap).value

\* C34: when a key is supplied both by instance() and by a builder
\* registration without dependencies, build() succeeds (when nothing else is
\* registered) and the registry stores the value of whichever of the
\* registrations was made last.
C34_LastOfInstanceAndBuilderWins ==
    \A k \in SuppliedBothWays :
        /\ (BuildEnded /\ \A i \in DOMAIN calls : CallKey(calls[i]) = k) => pc = "done"
        /\ pc = "done" => injector[1][k] = LastSupplied(k)

\* the builder registrations of key k
BuilderRegs(b, k) == {i \in DOMAIN b.builders : b.builders[i].type_id = k}

\* the keys with several builder registrations that the duplicates pass
\* does not report
SeveralBuilders(b) ==
    {k \in Keys :
        /\ Cardinality(BuilderRegs(b, k)) >= 2
        /\ ~HasDuplicate(b, DOMAIN b.static_values)}

\* the builder registered last for key k
LastBuilder(b, k) ==
    b.builders[CHOOSE i \in BuilderRegs(b, k) : \A j \in BuilderRegs(b, k) : j <= i].f

\* C35: when a key has several builder registrations and the duplicates pass
\* reports nothing, build() invokes one builder for it, once: the one
\* registered last; the key is scheduled on the dependency list which that
\* registration declared, and when the builder is invoked all its declared
\* dependencies are in the registry, so that it succeeds.
C35_LastBuilderRunsWithItsDependencies ==
    [][\A k \in SeveralBuilders(binder) :
          /\ Invocations(k)' <= 1
          /\ pc' = "done" => Invocations(k)' = 1
          /\ (pc = "resolving" /\ invoked' = Append(invoked, k)) =>
                /\ BuildersMap(binder)[k] = LastBuilder(binder, k)
                /\ left_deps[k] = LastBuilder(binder, k).deps
                /\ Range(BuildersMap(binder)[k].deps) \subseteq DOMAIN injector[1]
                /\ CallBuilder(BuildersMap(binder)[k], k, injector[1]).kind = "Ok"
                /\ injector'[1][k] =
                      CallBuilder(LastBuilder(binder, k), k, injector[1]).value]_vars

\* build() has succeeded for a key registered first without and then with a
\* dependency: the key was resolved in round 2, after its dependency, and the
\* registry holds the value of the later builder
C35_Witness ==
    /\ pc = "done"
    /\ \E k \in SeveralBuilders(binder) :
          /\ binder.builders[CHOOSE i \in BuilderRegs(binder, k) : \A j \in BuilderRegs(binder, k) : i <= j].f.deps = << >>
          /\ LastBuilder(binder, k).deps # << >>
          /\ rounds.of[k] = 2
          /\ Invocations(k) = 1
          /\ injector[1][k].args # << >>

====
